---- MODULE Spec2Model ----
(***************************************************************************)
(* Unified authentication / session layer of the SecureVAPT server:        *)
(* passport session codec (authSession.ts), federated login and token      *)
(* refresh (replitAuth.ts), local credential validation (localAuth.ts),    *)
(* the user table (storage.ts) and the user-management routes (routes.ts). *)
(*                                                                         *)
(* One HTTP request is one action: session load, passport deserialization, *)
(* the gate, the route handler and the session save of express-session.    *)
(***************************************************************************)
EXTENDS Integers, FiniteSets, Sequences, TLC

VARIABLES
    users,      \* the users table: id -> row, or NoRow
    sessions,   \* the session store: sid -> [passport, intendedRole]
    now,        \* Math.floor(Date.now() / 1000)
    nodeEnv,    \* process.env.NODE_ENV
    last,       \* what the last request did (observation, never read by the code)
    inflight,   \* requests between two awaits: request id -> position and locals
    reports     \* the reports table, in order of insertion

vars == <<users, sessions, now, nodeEnv, last, inflight, reports>>

----------------------------------------------------------------------------
(* Bounds of the model *)

MaxTime == 3        \* the clock runs over 1..MaxTime
MaxToken == 2       \* the provider draws token values from 1..MaxToken
MaxPassword == 2    \* plaintext passwords are 1..MaxPassword
MaxReports == 3     \* the reports table holds up to MaxReports rows

----------------------------------------------------------------------------
(* Value spaces *)

Sids == {"s1", "s2"}
Subs == {"a", "b"}                  \* subject ids of the identity provider
LocalIdSeq == <<"u1", "u2">>        \* gen_random_uuid() values, in allocation order
LocalIds == {LocalIdSeq[k] : k \in DOMAIN LocalIdSeq}
UserIds == Subs \cup LocalIds
Usernames == {"alice", "bob"}
Passwords == 1..MaxPassword
Tokens == 1..MaxToken
Times == 1..MaxTime

Roles == {"admin", "pentester", "client"}
NoRole == "none"
NoRow == [absent |-> TRUE]                  \* no row with this id
Gone == [absent |-> TRUE, deleted |-> TRUE] \* a deleted row: its uuid is never issued again
NoRecord == [type |-> "none"]
NoUser == [anonymous |-> TRUE]
NoTokens == [absent |-> TRUE]
NoUsername == ""
NoPassword == [alg |-> "null", of |-> 0]
NoEmail == ""
Rids == {"r1", "r2"}                \* requests that may be in flight together
Idle == [pc |-> "idle"]             \* no request in this slot

----------------------------------------------------------------------------
(* storage.ts *)

\* A slot of the table that holds a row
Present(row) == "id" \in DOMAIN row

getUser(tbl, id) == IF id \in DOMAIN tbl /\ Present(tbl[id]) THEN tbl[id] ELSE NoRow

getUsersByRole(tbl, role) ==
    {tbl[i] : i \in {j \in DOMAIN tbl : Present(tbl[j]) /\ tbl[j].role = role}}

getUserByUsername(tbl, username) ==
    LET hits == {i \in DOMAIN tbl : Present(tbl[i]) /\ tbl[i].username = username}
    IN  IF hits = {} THEN NoRow ELSE tbl[CHOOSE i \in hits : TRUE]

\* bcrypt.hash(password, 12): the stored value is never the plaintext
bcryptHash(password) == [alg |-> "bcrypt", of |-> password]

\* bcrypt.compare(password, hash)
bcryptCompare(password, hash) == hash.alg = "bcrypt" /\ hash.of = password

validatePassword(user, password) ==
    IF user.password = NoPassword THEN FALSE ELSE bcryptCompare(password, user.password)

\* email: varchar("email").unique(): a write of an email another row holds
\* violates the constraint and the statement throws; nulls never conflict
emailTaken(tbl, id, email) ==
    /\ email # NoEmail
    /\ \E j \in DOMAIN tbl \ {id} : Present(tbl[j]) /\ tbl[j].email = email

\* insert ... on conflict (id) do update set {...userData}: the columns of
\* userData (id, email, role; the other profile fields are left out) are
\* written, the others keep their value on conflict and take the column
\* defaults on insert. The caller has checked emailTaken.
storageUpsertUser(tbl, userData) ==
    IF getUser(tbl, userData.id) # NoRow
    THEN [tbl EXCEPT ![userData.id] =
            [f \in DOMAIN tbl[userData.id] |->
                IF f \in DOMAIN userData THEN userData[f] ELSE tbl[userData.id][f]]]
    ELSE [tbl EXCEPT ![userData.id] =
            [id |-> userData.id, email |-> userData.email, username |-> NoUsername,
             password |-> NoPassword, role |-> userData.role, isActive |-> TRUE]]

\* gen_random_uuid(): an id no row has ever had
FreshIds(tbl) == {i \in LocalIds : tbl[i] = NoRow}

FreshId(tbl) ==
    LocalIdSeq[CHOOSE k \in DOMAIN LocalIdSeq :
                 /\ LocalIdSeq[k] \in FreshIds(tbl)
                 /\ \A j \in 1..(k - 1) : LocalIdSeq[j] \notin FreshIds(tbl)]

createUserWithPassword(tbl, id, userData) ==
    [tbl EXCEPT ![id] = [id |-> id,
                         email |-> IF "email" \in DOMAIN userData THEN userData.email
                                   ELSE NoEmail,
                         username |-> userData.username,
                         password |-> bcryptHash(userData.password),
                         role |-> userData.role, isActive |-> TRUE]]

\* createUser(userData): insert ... values(userData), every column as given
\* (the password is stored as sent), the others at their defaults
createUser(tbl, id, userData) ==
    [tbl EXCEPT ![id] =
        [id |-> id,
         email |-> IF "email" \in DOMAIN userData THEN userData.email ELSE NoEmail,
         username |-> IF "username" \in DOMAIN userData THEN userData.username
                      ELSE NoUsername,
         password |-> IF "password" \in DOMAIN userData
                      THEN [alg |-> "plain", of |-> userData.password]
                      ELSE NoPassword,
         role |-> IF "role" \in DOMAIN userData THEN userData.role ELSE "client",
         isActive |-> TRUE]]

\* update users set {...userData} where id = userId
updateUser(tbl, userId, userData) ==
    IF getUser(tbl, userId) = NoRow THEN tbl
    ELSE [tbl EXCEPT ![userId] =
            [f \in DOMAIN tbl[userId] |->
                IF f \in DOMAIN userData THEN userData[f] ELSE tbl[userId][f]]]

deleteUser(tbl, userId) ==
    IF getUser(tbl, userId) = NoRow THEN tbl ELSE [tbl EXCEPT ![userId] = Gone]

----------------------------------------------------------------------------
(* localAuth.ts *)

\* a validator that looks at the active flag before the password
localVerify_ActiveFirst(tbl, username, password) ==
    LET user == getUserByUsername(tbl, username)
    IN  IF user = NoRow
        THEN [user |-> NoUser, message |-> "Invalid username or password"]
        ELSE IF ~user.isActive
        THEN [user |-> NoUser, message |-> "Account is disabled"]
        ELSE IF ~validatePassword(user, password)
        THEN [user |-> NoUser, message |-> "Invalid username or password"]
        ELSE [user |-> user, message |-> ""]

\* a validator that never reads the active flag
localVerify_IgnoresActive(tbl, username, password) ==
    LET user == getUserByUsername(tbl, username)
    IN  IF user = NoRow \/ ~validatePassword(user, password)
        THEN [user |-> NoUser, message |-> "Invalid username or password"]
        ELSE [user |-> user, message |-> ""]

\* the verify function of the LocalStrategy: done(null, user | false, info)
localVerify(tbl, username, password) ==
    LET user == getUserByUsername(tbl, username)
    IN  IF user = NoRow
        THEN [user |-> NoUser, message |-> "Invalid username or password"]
        ELSE IF ~validatePassword(user, password)
        THEN [user |-> NoUser, message |-> "Invalid username or password"]
        ELSE IF ~user.isActive
        THEN [user |-> NoUser, message |-> "Account is disabled"]
        ELSE [user |-> user, message |-> ""]

----------------------------------------------------------------------------
(* replitAuth.ts *)

\* claims["email"]: undefined when the provider sends none
claimsEmail(claims) == IF "email" \in DOMAIN claims THEN claims.email ELSE NoEmail

\* a role rule that honours the hint in every deployment mode
newUserRole_HintAlways(tbl, intendedRole, env) ==
    IF getUsersByRole(tbl, "admin") = {} THEN "admin"
    ELSE IF intendedRole \in Roles THEN intendedRole
    ELSE "client"

\* The role upsertUser gives a subject id that has no row yet
newUserRole(tbl, intendedRole, env) ==
    LET isFirstUser == getUsersByRole(tbl, "admin") = {}
    IN  IF isFirstUser THEN "admin"
        ELSE IF intendedRole \in Roles
        THEN (IF env = "development" THEN intendedRole ELSE "client")
        ELSE "client"

\* an upsert that computes the role of a returning user like a new user's
upsertUser_RoleOnRelogin(tbl, claims, intendedRole, env) ==
    IF emailTaken(tbl, claims.sub, claimsEmail(claims))
    THEN [err |-> "duplicate key value violates unique constraint", users |-> tbl]
    ELSE [err |-> "",
          users |-> storageUpsertUser(tbl, [id |-> claims.sub,
                                            email |-> claimsEmail(claims),
                                            role |-> newUserRole(tbl, intendedRole, env)])]

\* upsertUser(claims, intendedRole): [err, users]; a violated constraint
\* throws out of the verify callback
upsertUser(tbl, claims, intendedRole, env) ==
    LET userId == claims.sub
        existingUser == getUser(tbl, userId)
        role == IF existingUser # NoRow THEN existingUser.role
                ELSE newUserRole(tbl, intendedRole, env)
    IN  IF emailTaken(tbl, userId, claimsEmail(claims))
        THEN [err |-> "duplicate key value violates unique constraint", users |-> tbl]
        ELSE [err |-> "",
              users |-> storageUpsertUser(tbl, [id |-> userId, email |-> claimsEmail(claims),
                                                role |-> role])]

----------------------------------------------------------------------------
(* authSession.ts *)

createOIDCUser(tokens) ==
    [claims |-> tokens.claims,
     access_token |-> tokens.access_token,
     refresh_token |-> tokens.refresh_token,
     expires_at |-> tokens.claims.exp]

\* user.claims && user.access_token
isOIDCShape(user) ==
    /\ "claims" \in DOMAIN user
    /\ "access_token" \in DOMAIN user
    /\ user.access_token # 0

\* user.id (an empty id is falsy)
hasId(user) == "id" \in DOMAIN user /\ user.id # ""

\* a serializer that keeps the whole user object in a local record
serializeUser_WholeUser(user) ==
    IF isOIDCShape(user)
    THEN [err |-> "", data |-> [type |-> "oidc", claims |-> user.claims,
                                 access_token |-> user.access_token,
                                 refresh_token |-> user.refresh_token,
                                 expires_at |-> user.expires_at]]
    ELSE IF hasId(user)
    THEN [err |-> "", data |-> [type |-> "local", userId |-> user.id, user |-> user]]
    ELSE [err |-> "Unknown user type for serialization", data |-> NoRecord]

\* passport.serializeUser: [err, data]
serializeUser(user) ==
    IF isOIDCShape(user)
    THEN [err |-> "", data |-> [type |-> "oidc", claims |-> user.claims,
                                 access_token |-> user.access_token,
                                 refresh_token |-> user.refresh_token,
                                 expires_at |-> user.expires_at]]
    ELSE IF hasId(user)
    THEN [err |-> "", data |-> [type |-> "local", userId |-> user.id]]
    ELSE [err |-> "Unknown user type for serialization", data |-> NoRecord]

\* a deserializer that rebuilds a federated principal from its tokens alone
deserializeUser_TokensOnly(sessionData, tbl) ==
    IF sessionData.type = "oidc"
    THEN [err |-> "", user |-> [access_token |-> sessionData.access_token,
                                 refresh_token |-> sessionData.refresh_token,
                                 expires_at |-> sessionData.expires_at]]
    ELSE IF sessionData.type = "local"
    THEN (IF getUser(tbl, sessionData.userId) = NoRow
          THEN [err |-> "User not found", user |-> NoUser]
          ELSE [err |-> "", user |-> getUser(tbl, sessionData.userId)])
    ELSE [err |-> "Unknown session data type", user |-> NoUser]

\* a deserializer that answers done(null, false) for a missing row: passport
\* then drops the record and the request goes on without a principal
deserializeUser_Anonymous(sessionData, tbl) ==
    IF sessionData.type = "oidc"
    THEN [err |-> "", user |-> [claims |-> sessionData.claims,
                                 access_token |-> sessionData.access_token,
                                 refresh_token |-> sessionData.refresh_token,
                                 expires_at |-> sessionData.expires_at]]
    ELSE IF sessionData.type = "local"
    THEN (IF getUser(tbl, sessionData.userId) = NoRow
          THEN [err |-> "", user |-> NoUser]
          ELSE [err |-> "", user |-> getUser(tbl, sessionData.userId)])
    ELSE [err |-> "Unknown session data type", user |-> NoUser]

\* passport.deserializeUser: [err, user]. The oidc branch builds a NEW object
\* from the fields of the record; the local branch reads the users table.
deserializeUser(sessionData, tbl) ==
    IF sessionData.type = "oidc"
    THEN [err |-> "", user |-> [claims |-> sessionData.claims,
                                 access_token |-> sessionData.access_token,
                                 refresh_token |-> sessionData.refresh_token,
                                 expires_at |-> sessionData.expires_at]]
    ELSE IF sessionData.type = "local"
    THEN (IF getUser(tbl, sessionData.userId) = NoRow
          THEN [err |-> "User not found", user |-> NoUser]
          ELSE [err |-> "", user |-> getUser(tbl, sessionData.userId)])
    ELSE [err |-> "Unknown session data type", user |-> NoUser]

\* a refresh that drops the refresh_token when the provider does not rotate it
updateUserSession_AlwaysReplace(user, tokenResponse) ==
    [user EXCEPT !.claims = tokenResponse.claims,
                 !.access_token = tokenResponse.access_token,
                 !.refresh_token = tokenResponse.refresh_token,
                 !.expires_at = tokenResponse.claims.exp]

updateUserSession(user, tokenResponse) ==
    [user EXCEPT !.claims = tokenResponse.claims,
                 !.access_token = tokenResponse.access_token,
                 !.refresh_token = IF tokenResponse.refresh_token # 0
                                   THEN tokenResponse.refresh_token
                                   ELSE user.refresh_token,
                 !.expires_at = tokenResponse.claims.exp]

getUserId(user) ==
    IF user = NoUser THEN ""
    ELSE IF "claims" \in DOMAIN user THEN user.claims.sub
    ELSE IF hasId(user) THEN user.id
    ELSE ""

\* What the provider does when the gate tries to refresh: discovery fails,
\* the refresh grant fails, or the grant answers with a token response.
RefreshOutcomes(user, t) ==
    {[kind |-> "discovery_error", tokens |-> NoTokens],
     [kind |-> "grant_error", tokens |-> NoTokens]}
    \cup
    {[kind |-> "ok",
      tokens |-> [claims |-> [sub |-> getUserId(user), exp |-> e],
                  access_token |-> a, refresh_token |-> r]] :
        e \in t..MaxTime, a \in Tokens, r \in {0} \cup Tokens}

\* the token counted as expired at the very instant expires_at
isFresh_Strict(user, t) == t < user.expires_at

\* now <= user.expires_at
isFresh(user, t) == t <= user.expires_at

\* the refresh attempted without looking at the refresh token
hasRefreshToken_Unchecked(user) == TRUE

\* const refreshToken = user.refresh_token; if (!refreshToken) ...
hasRefreshToken(user) == user.refresh_token # 0

\* Whether the gate reaches the refresh exchange for this principal
needsRefresh(user, t) ==
    /\ user # NoUser
    /\ isOIDCShape(user)
    /\ user.expires_at # 0
    /\ ~isFresh(user, t)
    /\ hasRefreshToken(user)

\* res.status(401).json(...) without calling next
reject401(user, calls) == [status |-> 401, next |-> FALSE, user |-> user, calls |-> calls]

\* return next()
callNext(user, calls) == [status |-> 0, next |-> TRUE, user |-> user, calls |-> calls]

\* a failed refresh that has already cleared the expiry of the principal
refreshFailed_Partial(user, calls) ==
    [status |-> 401, next |-> FALSE, user |-> [user EXCEPT !.expires_at = 0],
     calls |-> calls]

\* The catch block of the refresh: the principal is as it was before the try
refreshFailed(user, calls) == reject401(user, calls)

\* The try block of the refresh, by what the provider does
tryRefresh(user, outcome) ==
    IF outcome.kind = "discovery_error" THEN refreshFailed(user, {"discovery"})
    ELSE IF outcome.kind = "grant_error" THEN refreshFailed(user, {"discovery", "token"})
    ELSE IF outcome.kind = "ok"
    THEN callNext(updateUserSession(user, outcome.tokens), {"discovery", "token"})
    ELSE refreshFailed(user, {})

\* a gate for which local sessions lapse when the clock reaches its last value
gatePrincipal_LocalLapses(user, t, outcome) ==
    IF isOIDCShape(user)
    THEN IF user.expires_at = 0 THEN reject401(user, {})
         ELSE IF isFresh(user, t) THEN callNext(user, {})
         ELSE IF ~hasRefreshToken(user) THEN reject401(user, {})
         ELSE tryRefresh(user, outcome)
    ELSE IF hasId(user) /\ t < MaxTime THEN callNext(user, {})
    ELSE reject401(user, {})

\* The gate for a request that carries a principal (lines after the first check)
gatePrincipal(user, t, outcome) ==
    IF isOIDCShape(user)
    THEN IF user.expires_at = 0 THEN reject401(user, {})
         ELSE IF isFresh(user, t) THEN callNext(user, {})
         ELSE IF ~hasRefreshToken(user) THEN reject401(user, {})
         ELSE tryRefresh(user, outcome)
    ELSE IF hasId(user) THEN callNext(user, {})
    ELSE reject401(user, {})

\* a gate whose first check lets a request without a principal through
unifiedIsAuthenticated_Open(user, t, outcome) ==
    IF user = NoUser THEN callNext(user, {}) ELSE gatePrincipal(user, t, outcome)

\* unifiedIsAuthenticated(req, res, next): [status, next, user, calls].
\* status is the status the gate itself answers with (0 when it calls next),
\* calls is the set of provider calls made (getOidcConfig, refreshTokenGrant).
unifiedIsAuthenticated(user, t, outcome) ==
    IF user = NoUser THEN reject401(user, {}) ELSE gatePrincipal(user, t, outcome)

\* The try block of isAuthenticated in replitAuth.ts. The module imports
\* createOIDCUser only: updateUserSession is not a name of that module, so
\* the call after a token response throws a ReferenceError, which the catch
\* block answers with 401 like any other failure.
oidcTryRefresh(user, outcome) ==
    IF outcome.kind = "discovery_error" THEN refreshFailed(user, {"discovery"})
    ELSE IF outcome.kind = "grant_error" THEN refreshFailed(user, {"discovery", "token"})
    ELSE IF outcome.kind = "ok" THEN refreshFailed(user, {"discovery", "token"})
    ELSE refreshFailed(user, {})

\* isAuthenticated(req, res, next) of replitAuth.ts: [status, next, user, calls]
isAuthenticated(user, t, outcome) ==
    IF user = NoUser THEN reject401(user, {})
    ELSE IF "expires_at" \notin DOMAIN user THEN reject401(user, {})
    ELSE IF user.expires_at = 0 THEN reject401(user, {})
    ELSE IF isFresh(user, t) THEN callNext(user, {})
    ELSE IF ~hasRefreshToken(user) THEN reject401(user, {})
    ELSE oidcTryRefresh(user, outcome)

\* requireAuth of localAuth.ts
requireAuth(user) == IF user # NoUser THEN callNext(user, {}) ELSE reject401(user, {})

NoOutcome == [kind |-> "none", tokens |-> NoTokens]

OutcomesFor(user, t) == IF needsRefresh(user, t) THEN RefreshOutcomes(user, t) ELSE {NoOutcome}

----------------------------------------------------------------------------
(* The request pipeline: express-session, passport.session(), the gate *)

\* A plain Error handed to done(err) carries no status: the request ends in
\* the error handler with 500.
errorStatus(err) == 500

\* passport.session(): no record, no principal; a record is deserialized,
\* and a deserialization error ends the request.
passportSession(rec, tbl) ==
    IF rec = NoRecord THEN [err |-> "", user |-> NoUser] ELSE deserializeUser(rec, tbl)

\* a request that copies the new access token, and nothing else, into the
\* stored record
reqSessionAfter_AccessTokenOnly(rec, user) ==
    IF rec.type = "oidc" THEN [rec EXCEPT !.access_token = user.access_token] ELSE rec

\* req.session.passport.user at the end of a request that ran the gate. The
\* principal the gate updates is the object deserializeUser built, not the
\* record: nothing assigns to req.session, so the record is the one loaded.
reqSessionAfter(rec, user) == rec

\* req.login(user): the session is regenerated and holds serializeUser(user)
reqLogin(sess, user) ==
    [passport |-> serializeUser(user).data, intendedRole |-> NoRole, loginRole |-> NoRole]

\* a logout that answers the redirect and leaves the session as it was
reqLogout_Keeps(sess) == sess

\* req.logout(): the principal is removed and the session regenerated
reqLogout(sess) == [passport |-> NoRecord, intendedRole |-> NoRole, loginRole |-> NoRole]

NoSession == [passport |-> NoRecord, intendedRole |-> NoRole, loginRole |-> NoRole]

\* The role the users table holds for a principal
storedRole(tbl, user) ==
    IF getUser(tbl, getUserId(user)) = NoRow THEN NoRole
    ELSE getUser(tbl, getUserId(user)).role

\* Observation: the session remembers the role its user had at login. No
\* code reads loginRole.
Logged(sess, tbl, user) == [sess EXCEPT !.loginRole = storedRole(tbl, user)]

\* The observation record of a request; the clock has not moved since.
Obs(op, sid, status, nxt, calls, pre, post, rec, refresh, body, message) ==
    [op |-> op, sid |-> sid, status |-> status, next |-> nxt, calls |-> calls,
     pre |-> pre, post |-> post, rec |-> rec, refresh |-> refresh.kind,
     tokens |-> refresh.tokens, body |-> body, message |-> message]

\* A request stopped before its handler: by a deserialization error (500) or
\* by the gate (401).
Stopped(op, sid, des, gate, outcome) ==
    IF des.err # ""
    THEN Obs(op, sid, errorStatus(des.err), FALSE, {}, NoUser, NoUser,
             sessions[sid].passport, NoOutcome, {}, des.err)
    ELSE Obs(op, sid, gate.status, FALSE, gate.calls, des.user, gate.user,
             sessions[sid].passport, outcome, {}, "Unauthorized")

----------------------------------------------------------------------------
(* Actions *)

TypeOK ==
    /\ now \in Times
    /\ nodeEnv \in {"development", "production", "test"}
    /\ DOMAIN users = UserIds
    /\ DOMAIN sessions = Sids

Init ==
    /\ users = [i \in UserIds |-> NoRow]
    /\ sessions = [s \in Sids |-> NoSession]
    /\ now = 1
    /\ nodeEnv \in {"development", "production"}
    /\ last = Obs("init", "", 0, FALSE, {}, NoUser, NoUser, NoRecord, NoOutcome, {}, "")
    /\ inflight = [r \in Rids |-> Idle]
    /\ reports = <<>>

\* The clock advances
Tick ==
    /\ now < MaxTime
    /\ now' = now + 1
    /\ last' = Obs("tick", "", 0, FALSE, {}, NoUser, NoUser, NoRecord, NoOutcome, {}, "")
    /\ UNCHANGED <<users, sessions, nodeEnv, inflight, reports>>

\* The token responses of the authorization-code exchange at the callback
CallbackTokens(t) ==
    {[claims |-> [sub |-> s, exp |-> e], access_token |-> a, refresh_token |-> r] :
        s \in Subs, e \in t..MaxTime, a \in Tokens, r \in {0} \cup Tokens}

\* GET /api/login[?role=] and /api/login/:role: the hint is stored in the
\* session when it names a role, and the browser is sent to the provider
Login(sid, role) ==
    LET rec == sessions[sid].passport
        des == passportSession(rec, users)
    IN  /\ IF des.err # ""
           THEN /\ sessions' = sessions
                /\ last' = Obs("login", sid, errorStatus(des.err), FALSE, {}, NoUser,
                               NoUser, rec, NoOutcome, {}, des.err)
           ELSE /\ sessions' = IF role \in Roles
                               THEN [sessions EXCEPT ![sid].intendedRole = role]
                               ELSE sessions
                /\ last' = Obs("login", sid, 302, FALSE, {}, des.user, des.user, rec,
                               NoOutcome, {}, "")
        /\ UNCHANGED <<users, now, nodeEnv, inflight, reports>>

\* GET /api/callback: passport.session() on the session the browser sends,
\* then the strategy's verify callback and req.login
Callback(sid, tokens) ==
    LET rec == sessions[sid].passport
        des == passportSession(rec, users)
        user == createOIDCUser(tokens)
        intendedRole == sessions[sid].intendedRole
        up == upsertUser(users, tokens.claims, intendedRole, nodeEnv)
        hint == [hint |-> intendedRole]
    IN  /\ IF des.err # ""
           THEN /\ users' = users
                /\ sessions' = sessions
                /\ last' = hint @@ Obs("callback", sid, errorStatus(des.err), FALSE, {},
                                       NoUser, NoUser, rec, NoOutcome, {}, des.err)
           ELSE IF up.err # ""
           THEN /\ users' = users
                /\ sessions' = sessions
                /\ last' = hint @@ Obs("callback", sid, errorStatus(up.err), FALSE,
                                       {"token"}, des.user, des.user, rec,
                                       [kind |-> "code", tokens |-> tokens], {}, up.err)
           ELSE /\ users' = up.users
                /\ sessions' = [sessions EXCEPT
                                  ![sid] = Logged(reqLogin(sessions[sid], user), users', user)]
                /\ last' = hint @@ Obs("callback", sid, 302, FALSE, {"token"}, NoUser,
                                       user, NoRecord, [kind |-> "code", tokens |-> tokens],
                                       {}, "")
        /\ UNCHANGED <<now, nodeEnv, inflight, reports>>

\* GET /api/logout
Logout(sid) ==
    LET des == passportSession(sessions[sid].passport, users)
    IN  /\ IF des.err # ""
           THEN /\ sessions' = sessions
                /\ last' = Obs("logout", sid, errorStatus(des.err), FALSE, {}, NoUser,
                               NoUser, sessions[sid].passport, NoOutcome, {}, des.err)
           ELSE /\ sessions' = [sessions EXCEPT ![sid] = reqLogout(sessions[sid])]
                /\ last' = Obs("logout", sid, 302, FALSE, {}, des.user, NoUser,
                               sessions[sid].passport, NoOutcome, {}, "")
        /\ UNCHANGED <<users, now, nodeEnv, inflight, reports>>

NoAudit == [action |-> "none"]

\* What a handler answers: res.status(status).json(body | {message}), with the
\* users table as the handler leaves it and no audit log entry
Answer(status, tbl, body, message) ==
    [status |-> status, users |-> tbl, body |-> body, message |-> message,
     audit |-> NoAudit]

\* storage.createAuditLog({userId, action, resourceType: 'user', resourceId})
\* before the answer
withAuditLog(answer, user, action, resourceId) ==
    [answer EXCEPT !.audit = [action |-> action, userId |-> getUserId(user),
                               resourceId |-> resourceId]]

\* a role check that trusts the role carried by the principal (req.user.role)
currentUserIsAdmin_FromPrincipal(tbl, user) ==
    "role" \in DOMAIN user /\ user.role = "admin"

\* const currentUser = await storage.getUser(getUserId(req)!);
\* if (currentUser?.role !== 'admin') return res.status(403)
currentUserIsAdmin(tbl, user) == storedRole(tbl, user) = "admin"

\* GET /api/auth/user
hGetAuthUser(tbl, user) ==
    IF getUser(tbl, getUserId(user)) = NoRow
    THEN Answer(404, tbl, {}, "User not found")
    ELSE Answer(200, tbl, {getUser(tbl, getUserId(user))}, "")

\* GET /api/users?role=
hGetUsers(tbl, user, role) ==
    IF ~currentUserIsAdmin(tbl, user)
    THEN Answer(403, tbl, {}, "Access denied. Admin role required.")
    ELSE IF role \in Roles THEN Answer(200, tbl, getUsersByRole(tbl, role), "")
    ELSE Answer(200, tbl, UNION {getUsersByRole(tbl, r) : r \in Roles}, "")

\* const { password: _, ...userWithoutPassword } = newUser
withoutPassword(row) == [f \in DOMAIN row \ {"password"} |-> row[f]]

\* a create-user handler that accepts every role
hAdminCreateUser_AnyRole(tbl, user, body) ==
    IF ~currentUserIsAdmin(tbl, user)
    THEN Answer(403, tbl, {}, "Access denied. Admin role required.")
    ELSE IF body.username = "" \/ body.password = 0 \/ body.role = ""
    THEN Answer(400, tbl, {}, "Username, password, and role are required")
    ELSE IF getUserByUsername(tbl, body.username) # NoRow
    THEN Answer(409, tbl, {}, "Username already exists")
    ELSE LET created == createUserWithPassword(tbl, FreshId(tbl), body)
         IN  Answer(201, created, {withoutPassword(created[FreshId(tbl)])},
                    "User created successfully")

\* POST /api/admin/create-user; "" and 0 stand for a missing field
hAdminCreateUser(tbl, user, body) ==
    IF ~currentUserIsAdmin(tbl, user)
    THEN Answer(403, tbl, {}, "Access denied. Admin role required.")
    ELSE IF body.username = "" \/ body.password = 0 \/ body.role = ""
    THEN Answer(400, tbl, {}, "Username, password, and role are required")
    ELSE IF body.role \notin {"pentester", "client"}
    THEN Answer(400, tbl, {}, "Role must be pentester or client")
    ELSE IF getUserByUsername(tbl, body.username) # NoRow
    THEN Answer(409, tbl, {}, "Username already exists")
    ELSE IF "email" \in DOMAIN body /\ emailTaken(tbl, FreshId(tbl), body.email)
    THEN Answer(500, tbl, {}, "Failed to create user")
    ELSE LET created == createUserWithPassword(tbl, FreshId(tbl), body)
         IN  Answer(201, created, {withoutPassword(created[FreshId(tbl)])},
                    "User created successfully")

\* a PUT handler without the guard on the admin's own role
hPutUser_NoSelfGuard(tbl, user, userId, userData) ==
    IF ~currentUserIsAdmin(tbl, user)
    THEN Answer(403, tbl, {}, "Access denied. Admin role required.")
    ELSE IF getUser(tbl, userId) = NoRow
    THEN Answer(500, tbl, {}, "Failed to update user")
    ELSE withAuditLog(Answer(200, updateUser(tbl, userId, userData),
                             {updateUser(tbl, userId, userData)[userId]}, ""),
                      user, "updated", userId)

\* a PUT handler without the admin check
hPutUser_AnyUser(tbl, user, userId, userData) ==
    IF getUser(tbl, userId) = NoRow
    THEN Answer(500, tbl, {}, "Failed to update user")
    ELSE withAuditLog(Answer(200, updateUser(tbl, userId, userData),
                             {updateUser(tbl, userId, userData)[userId]}, ""),
                      user, "updated", userId)

\* PUT /api/users/:id. updateUser of a missing id returns undefined, and the
\* audit log's user.id throws into the catch block: 500.
hPutUser(tbl, user, userId, userData) ==
    IF ~currentUserIsAdmin(tbl, user)
    THEN Answer(403, tbl, {}, "Access denied. Admin role required.")
    ELSE IF /\ userId = getUser(tbl, getUserId(user)).id
            /\ "role" \in DOMAIN userData
            /\ userData.role # "admin"
    THEN Answer(400, tbl, {}, "Cannot change your own admin role")
    ELSE IF getUser(tbl, userId) = NoRow
    THEN Answer(500, tbl, {}, "Failed to update user")
    ELSE withAuditLog(Answer(200, updateUser(tbl, userId, userData),
                             {updateUser(tbl, userId, userData)[userId]}, ""),
                      user, "updated", userId)

\* DELETE /api/users/:id
hDeleteUser(tbl, user, userId) ==
    IF ~currentUserIsAdmin(tbl, user)
    THEN Answer(403, tbl, {}, "Access denied. Admin role required.")
    ELSE IF userId = getUser(tbl, getUserId(user)).id
    THEN Answer(400, tbl, {}, "Cannot delete your own account")
    ELSE IF getUser(tbl, userId) = NoRow
    THEN Answer(404, tbl, {}, "User not found")
    ELSE withAuditLog(Answer(204, deleteUser(tbl, userId), {}, ""),
                      user, "deleted", userId)

\* POST /api/users: insertUserSchema.parse(req.body), then storage.createUser
hPostUser(tbl, user, body) ==
    IF ~currentUserIsAdmin(tbl, user)
    THEN Answer(403, tbl, {}, "Access denied. Admin role required.")
    ELSE IF "role" \in DOMAIN body /\ body.role \notin Roles
    THEN Answer(500, tbl, {}, "Failed to create user")
    ELSE IF "email" \in DOMAIN body /\ emailTaken(tbl, FreshId(tbl), body.email)
    THEN Answer(500, tbl, {}, "Failed to create user")
    ELSE LET created == createUser(tbl, FreshId(tbl), body)
         IN  withAuditLog(Answer(201, created, {created[FreshId(tbl)]}, ""),
                          user, "created", FreshId(tbl))

\* GET /api/dashboard/stats: the handler reads no user data and has no role
\* check
hGetDashboardStats(tbl, user) == Answer(200, tbl, {}, "")

\* No query, parameter or body
NoInput == [none |-> TRUE]

\* The handler registered for a route, applied to the principal the gate let
\* through and the request's inputs.
handle(op, tbl, user, req) ==
    CASE op = "stats" -> hGetDashboardStats(tbl, user)
      [] op = "authUser" -> hGetAuthUser(tbl, user)
      [] op = "getUsers" -> hGetUsers(tbl, user, req.role)
      [] op = "createUser" -> hAdminCreateUser(tbl, user, req.body)
      [] op = "postUser" -> hPostUser(tbl, user, req.body)
      [] op = "putUser" -> hPutUser(tbl, user, req.userId, req.body)
      [] op = "deleteUser" -> hDeleteUser(tbl, user, req.userId)

\* A route behind the gate: app.<method>(path, unifiedIsAuthenticated, handler)
Gated(op, sid, req) ==
    LET rec == sessions[sid].passport
        des == passportSession(rec, users)
    IN  \E outcome \in OutcomesFor(des.user, now) :
          LET gate == unifiedIsAuthenticated(des.user, now, outcome)
              r == handle(op, users, gate.user, req)
          IN  /\ IF des.err # "" \/ ~gate.next
                 THEN /\ last' = Stopped(op, sid, des, gate, outcome)
                      /\ users' = users
                 ELSE /\ last' = [req |-> req, audit |-> r.audit] @@
                                 Obs(op, sid, r.status, TRUE, gate.calls, des.user,
                                     gate.user, rec, outcome, r.body, r.message)
                      /\ users' = r.users
              /\ sessions' = IF des.err # "" THEN sessions
                             ELSE [sessions EXCEPT
                                     ![sid].passport = reqSessionAfter(rec, gate.user)]
              /\ UNCHANGED <<now, nodeEnv, inflight, reports>>

GetDashboardStats(sid) == Gated("stats", sid, NoInput)

\* A request to a route guarded by isAuthenticated of replitAuth.ts; the
\* handler behind the gate answers 200 and touches nothing
OidcGated(sid) ==
    LET rec == sessions[sid].passport
        des == passportSession(rec, users)
    IN  \E outcome \in OutcomesFor(des.user, now) :
          LET gate == isAuthenticated(des.user, now, outcome)
          IN  /\ last' = IF des.err # "" \/ ~gate.next
                         THEN Stopped("oidcGate", sid, des, gate, outcome)
                         ELSE Obs("oidcGate", sid, 200, TRUE, gate.calls, des.user,
                                  gate.user, rec, outcome, {}, "")
              /\ sessions' = IF des.err # "" THEN sessions
                             ELSE [sessions EXCEPT
                                     ![sid].passport = reqSessionAfter(rec, gate.user)]
              /\ UNCHANGED <<users, now, nodeEnv, inflight, reports>>

GetAuthUser(sid) == Gated("authUser", sid, NoInput)

GetUsers(sid, role) == Gated("getUsers", sid, [role |-> role])

AdminCreateUser(sid, body) ==
    /\ FreshIds(users) # {}
    /\ Gated("createUser", sid, [body |-> body])

PostUser(sid, body) ==
    /\ FreshIds(users) # {}
    /\ Gated("postUser", sid, [body |-> body])

PutUser(sid, userId, userData) ==
    Gated("putUser", sid, [userId |-> userId, body |-> userData])

DeleteUser(sid, userId) == Gated("deleteUser", sid, [userId |-> userId])

\* res.json({ user: { id, username, role, firstName, lastName } })
loginView(user) == [id |-> user.id, username |-> user.username, role |-> user.role]

\* POST /api/local-login
LocalLogin(sid, username, password) ==
    LET rec == sessions[sid].passport
        des == passportSession(rec, users)
        v == localVerify(users, username, password)
        input == [input |-> [username |-> username, password |-> password]]
    IN  /\ IF des.err # ""
           THEN /\ sessions' = sessions
                /\ last' = input @@ Obs("localLogin", sid, errorStatus(des.err), FALSE, {},
                                        NoUser, NoUser, rec, NoOutcome, {}, des.err)
           ELSE IF v.user = NoUser
           THEN /\ sessions' = sessions
                /\ last' = input @@ Obs("localLogin", sid, 401, FALSE, {}, des.user,
                                        des.user, rec, NoOutcome, {}, v.message)
           ELSE /\ sessions' = [sessions EXCEPT
                                  ![sid] = Logged(reqLogin(sessions[sid], v.user),
                                                  users, v.user)]
                /\ last' = input @@ Obs("localLogin", sid, 200, FALSE, {}, des.user,
                                        v.user, rec, NoOutcome, {loginView(v.user)},
                                        "Login successful")
        /\ UNCHANGED <<users, now, nodeEnv, inflight, reports>>

\* req.login(user) for an arbitrary principal: passport calls serializeUser
\* and, on done(err), hands the error to the caller without storing a record.
\* Whether the session was regenerated before the serializer ran depends on
\* the passport version: both outcomes are possible.
ReqLogin(sid, user) ==
    LET rec == sessions[sid].passport
        ser == serializeUser(user)
    IN  /\ IF ser.err # ""
           THEN /\ \E after \in {sessions[sid], reqLogout(sessions[sid])} :
                        sessions' = [sessions EXCEPT ![sid] = after]
                /\ last' = Obs("reqLogin", sid, errorStatus(ser.err), FALSE, {}, user,
                               user, rec, NoOutcome, {}, ser.err)
           ELSE /\ sessions' = [sessions EXCEPT ![sid] = reqLogin(sessions[sid], user)]
                /\ last' = Obs("reqLogin", sid, 200, FALSE, {}, user, user, rec,
                               NoOutcome, {}, "")
        /\ UNCHANGED <<users, now, nodeEnv, inflight, reports>>

\* `${userId}@dev.local`
devEmail(userId) ==
    CASE userId = "a" -> "a@dev.local"
      [] userId = "b" -> "b@dev.local"
      [] userId = "u1" -> "u1@dev.local"
      [] userId = "u2" -> "u2@dev.local"

\* The role dev-login gives a user id that has no row yet
devUserRole(tbl, role) ==
    LET isFirstUser == getUsersByRole(tbl, "admin") = {}
    IN  IF role \in Roles THEN role
        ELSE IF isFirstUser THEN "admin"
        ELSE "client"

\* GET|POST /api/dev-login, registered only in development
DevLogin(sid, userId, role) ==
    LET rec == sessions[sid].passport
        des == passportSession(rec, users)
        isNew == getUser(users, userId) = NoRow
        throws == isNew /\ emailTaken(users, userId, devEmail(userId))
        tbl == IF isNew /\ ~throws
               THEN storageUpsertUser(users, [id |-> userId, email |-> devEmail(userId),
                                              role |-> devUserRole(users, role)])
               ELSE users
        user == getUser(tbl, userId)
        hint == [hint |-> role]
    IN  /\ nodeEnv = "development"
        /\ IF des.err # ""
           THEN /\ users' = users
                /\ sessions' = sessions
                /\ last' = hint @@ Obs("devLogin", sid, errorStatus(des.err), FALSE, {},
                                       NoUser, NoUser, rec, NoOutcome, {}, des.err)
           ELSE IF throws
           THEN /\ users' = users
                /\ sessions' = sessions
                /\ last' = hint @@ Obs("devLogin", sid, 500, FALSE, {}, des.user,
                                       des.user, rec, NoOutcome, {}, "Login failed")
           ELSE /\ users' = tbl
                /\ sessions' = [sessions EXCEPT
                                  ![sid] = Logged(reqLogin(sessions[sid], user), tbl, user)]
                /\ last' = hint @@ Obs("devLogin", sid, 200, FALSE, {}, des.user, user,
                                       rec, NoOutcome, {user}, "Login successful")
        /\ UNCHANGED <<now, nodeEnv, inflight, reports>>

----------------------------------------------------------------------------
(* A protected request that refreshes, one await at a time *)

\* The request arrives: the session is loaded, passport.session() builds the
\* principal, and the gate runs up to `await getOidcConfig()`
RefreshBegin(r, sid) ==
    LET rec == sessions[sid].passport
        des == passportSession(rec, users)
    IN  /\ inflight[r] = Idle
        /\ des.err = ""
        /\ needsRefresh(des.user, now)
        /\ inflight' = [inflight EXCEPT
                          ![r] = [pc |-> "discovery", sid |-> sid, rec |-> rec,
                                  pre |-> des.user, gate |-> callNext(des.user, {}),
                                  outcome |-> NoOutcome]]
        /\ UNCHANGED <<users, sessions, now, nodeEnv, last, reports>>

\* `await getOidcConfig()` settles: discovery answers, or throws into the catch
RefreshDiscovery(r, ok) ==
    LET q == inflight[r]
        failed == [kind |-> "discovery_error", tokens |-> NoTokens]
    IN  /\ q.pc = "discovery"
        /\ inflight' = [inflight EXCEPT
                          ![r] = IF ok THEN [q EXCEPT !.pc = "grant"]
                                 ELSE [q EXCEPT !.pc = "respond",
                                                !.gate = tryRefresh(q.pre, failed),
                                                !.outcome = failed]]
        /\ UNCHANGED <<users, sessions, now, nodeEnv, last, reports>>

\* `await client.refreshTokenGrant(...)` settles; on a token response
\* updateUserSession and next() run in the same turn, up to the handler's answer
RefreshGrant(r, outcome) ==
    LET q == inflight[r]
    IN  /\ q.pc = "grant"
        /\ outcome.kind \in {"grant_error", "ok"}
        /\ inflight' = [inflight EXCEPT
                          ![r] = [q EXCEPT !.pc = "respond",
                                           !.gate = tryRefresh(q.pre, outcome),
                                           !.outcome = outcome]]
        /\ UNCHANGED <<users, sessions, now, nodeEnv, last, reports>>

\* The response ends: express-session writes the session back when the
\* request changed it
RefreshRespond(r) ==
    LET q == inflight[r]
        after == reqSessionAfter(q.rec, q.gate.user)
        answer == hGetDashboardStats(users, q.gate.user)
    IN  /\ q.pc = "respond"
        /\ sessions' = IF after = q.rec THEN sessions
                       ELSE [sessions EXCEPT ![q.sid].passport = after]
        /\ last' = IF q.gate.next
                   THEN Obs("stats", q.sid, answer.status, TRUE, q.gate.calls, q.pre,
                            q.gate.user, q.rec, q.outcome, answer.body, answer.message)
                   ELSE Obs("stats", q.sid, q.gate.status, FALSE, q.gate.calls, q.pre,
                            q.gate.user, q.rec, q.outcome, {}, "Session expired")
        /\ inflight' = [inflight EXCEPT ![r] = Idle]
        /\ UNCHANGED <<users, now, nodeEnv, reports>>

----------------------------------------------------------------------------
(* GET /api/callback, one storage call of upsertUser at a time *)

\* passport.session(), the code exchange and the start of the verify
\* callback, up to the first await of upsertUser
CallbackBegin(r, sid, tokens) ==
    LET rec == sessions[sid].passport
        des == passportSession(rec, users)
    IN  /\ inflight[r] = Idle
        /\ des.err = ""
        /\ inflight' = [inflight EXCEPT
                          ![r] = [pc |-> "existing", sid |-> sid, rec |-> rec,
                                  pre |-> des.user, tokens |-> tokens,
                                  hint |-> sessions[sid].intendedRole, role |-> NoRole]]
        /\ UNCHANGED <<users, sessions, now, nodeEnv, last, reports>>

\* `existingUser = await storage.getUser(userId)` settles: a known user
\* keeps the role that was read
UpsertExisting(r) ==
    LET q == inflight[r]
        existingUser == getUser(users, q.tokens.claims.sub)
    IN  /\ q.pc = "existing"
        /\ inflight' = [inflight EXCEPT
                          ![r] = IF existingUser # NoRow
                                 THEN [q EXCEPT !.pc = "write", !.role = existingUser.role]
                                 ELSE [q EXCEPT !.pc = "admins"]]
        /\ UNCHANGED <<users, sessions, now, nodeEnv, last, reports>>

\* `existingUsers = await storage.getUsersByRole('admin')` settles: the role
\* of the new user is decided on the admins that were read
UpsertAdmins(r) ==
    LET q == inflight[r]
    IN  /\ q.pc = "admins"
        /\ inflight' = [inflight EXCEPT
                          ![r] = [q EXCEPT !.pc = "write",
                                           !.role = newUserRole(users, q.hint, nodeEnv)]]
        /\ UNCHANGED <<users, sessions, now, nodeEnv, last, reports>>

\* `await storage.upsertUser({...})` settles; verify hands the principal to
\* passport, and req.login stores it in the session
UpsertWrite(r) ==
    LET q == inflight[r]
        claims == q.tokens.claims
        user == createOIDCUser(q.tokens)
        hint == [hint |-> q.hint]
        code == [kind |-> "code", tokens |-> q.tokens]
        err == "duplicate key value violates unique constraint"
    IN  /\ q.pc = "write"
        /\ IF emailTaken(users, claims.sub, claimsEmail(claims))
           THEN /\ users' = users
                /\ sessions' = sessions
                /\ last' = hint @@ Obs("callback", q.sid, errorStatus(err), FALSE,
                                       {"token"}, q.pre, q.pre, q.rec, code, {}, err)
           ELSE /\ users' = storageUpsertUser(users, [id |-> claims.sub,
                                                      email |-> claimsEmail(claims),
                                                      role |-> q.role])
                /\ sessions' = [sessions EXCEPT
                                  ![q.sid] = Logged(reqLogin(sessions[q.sid], user),
                                                    users', user)]
                /\ last' = hint @@ Obs("callback", q.sid, 302, FALSE, {"token"}, NoUser,
                                       user, NoRecord, code, {}, "")
        /\ inflight' = [inflight EXCEPT ![r] = Idle]
        /\ UNCHANGED <<now, nodeEnv, reports>>

----------------------------------------------------------------------------
(* PUT and DELETE /api/users/:id, one storage call at a time *)

\* The observation of a user-management request that ends with `answer`
Finished(q, answer) ==
    [req |-> q.req, audit |-> answer.audit] @@
    Obs(q.op, q.sid, answer.status, TRUE, {}, q.pre, q.pre, q.rec, NoOutcome,
        answer.body, answer.message)

\* passport.session() and the gate, up to the handler's first await; the
\* token is fresh, so the gate makes no call of its own
ManageBegin(r, sid, op, req) ==
    LET rec == sessions[sid].passport
        des == passportSession(rec, users)
    IN  /\ inflight[r] = Idle
        /\ op \in {"putUser", "deleteUser"}
        /\ des.err = ""
        /\ ~needsRefresh(des.user, now)
        /\ unifiedIsAuthenticated(des.user, now, NoOutcome).next
        /\ inflight' = [inflight EXCEPT
                          ![r] = [pc |-> "check", sid |-> sid, op |-> op, req |-> req,
                                  rec |-> rec, pre |-> des.user]]
        /\ UNCHANGED <<users, sessions, now, nodeEnv, last, reports>>

\* `currentUser = await storage.getUser(getUserId(req))` settles; the role
\* check and the self-guard run on the row it returned
ManageCheck(r) ==
    LET q == inflight[r]
        self == q.req.userId = getUser(users, getUserId(q.pre)).id
        refused ==
            IF ~currentUserIsAdmin(users, q.pre)
            THEN Answer(403, users, {}, "Access denied. Admin role required.")
            ELSE IF q.op = "putUser"
            THEN (IF self /\ "role" \in DOMAIN q.req.body /\ q.req.body.role # "admin"
                  THEN Answer(400, users, {}, "Cannot change your own admin role")
                  ELSE Answer(0, users, {}, ""))
            ELSE (IF self THEN Answer(400, users, {}, "Cannot delete your own account")
                  ELSE Answer(0, users, {}, ""))
    IN  /\ q.pc = "check"
        /\ IF refused.status # 0
           THEN /\ last' = Finished(q, refused)
                /\ inflight' = [inflight EXCEPT ![r] = Idle]
           ELSE /\ last' = last
                /\ inflight' = [inflight EXCEPT
                                  ![r] = [q EXCEPT !.pc = IF q.op = "deleteUser"
                                                          THEN "lookup" ELSE "write"]]
        /\ UNCHANGED <<users, sessions, now, nodeEnv, reports>>

\* DELETE: `userToDelete = await storage.getUser(userId)` settles
ManageLookup(r) ==
    LET q == inflight[r]
    IN  /\ q.pc = "lookup"
        /\ IF getUser(users, q.req.userId) = NoRow
           THEN /\ last' = Finished(q, Answer(404, users, {}, "User not found"))
                /\ inflight' = [inflight EXCEPT ![r] = Idle]
           ELSE /\ last' = last
                /\ inflight' = [inflight EXCEPT ![r] = [q EXCEPT !.pc = "write"]]
        /\ UNCHANGED <<users, sessions, now, nodeEnv, reports>>

\* `await storage.updateUser(...)` or `await storage.deleteUser(...)`
\* settles; the audit log entry and the answer follow
ManageWrite(r) ==
    LET q == inflight[r]
        userId == q.req.userId
        answer ==
            IF q.op = "deleteUser"
            THEN withAuditLog(Answer(204, deleteUser(users, userId), {}, ""),
                              q.pre, "deleted", userId)
            ELSE IF getUser(users, userId) = NoRow
            THEN Answer(500, users, {}, "Failed to update user")
            ELSE withAuditLog(Answer(200, updateUser(users, userId, q.req.body),
                                     {updateUser(users, userId, q.req.body)[userId]}, ""),
                              q.pre, "updated", userId)
    IN  /\ q.pc = "write"
        /\ users' = answer.users
        /\ last' = Finished(q, answer)
        /\ inflight' = [inflight EXCEPT ![r] = Idle]
        /\ UNCHANGED <<sessions, now, nodeEnv, reports>>

----------------------------------------------------------------------------
(* POST /api/reports/upload, one storage call at a time *)

\* The projects reports are uploaded for; "" stands for a missing projectId
Projects == {"p1", "p2"}

\* storage.markOldReportsAsNotLatest(projectId)
markOldReportsAsNotLatest(tbl, projectId) ==
    [i \in 1..Len(tbl) |->
        IF tbl[i].projectId = projectId THEN [tbl[i] EXCEPT !.isLatest = FALSE]
        ELSE tbl[i]]

\* storage.createReport(reportData): the new row is the last one
createReport(tbl, reportData) == Append(tbl, reportData)

\* The rows getLatestReportByProject selects from: the indices of the
\* reports of the project with isLatest = true
latestReports(tbl, projectId) ==
    {i \in 1..Len(tbl) : tbl[i].projectId = projectId /\ tbl[i].isLatest}

\* The uploads that have passed the gate and have not answered yet
Uploading == {r \in Rids : inflight[r] # Idle /\ inflight[r].op = "upload"}

\* passport.session(), the gate and upload.single('report'), up to the
\* handler's first await
UploadBegin(r, sid, projectId, hasFile) ==
    LET rec == sessions[sid].passport
        des == passportSession(rec, users)
    IN  /\ inflight[r] = Idle
        /\ Len(reports) + Cardinality(Uploading) < MaxReports
        /\ des.err = ""
        /\ ~needsRefresh(des.user, now)
        /\ unifiedIsAuthenticated(des.user, now, NoOutcome).next
        /\ inflight' = [inflight EXCEPT
                          ![r] = [pc |-> "check", sid |-> sid, op |-> "upload",
                                  req |-> [projectId |-> projectId, file |-> hasFile],
                                  rec |-> rec, pre |-> des.user]]
        /\ UNCHANGED <<users, sessions, now, nodeEnv, last, reports>>

\* `currentUser = await storage.getUser(getUserId(req))` settles; the role
\* check and the checks of the file and the project id follow
UploadCheck(r) ==
    LET q == inflight[r]
        currentUser == getUser(users, getUserId(q.pre))
        refused ==
            IF currentUser = NoRow \/ currentUser.role # "pentester"
            THEN Answer(403, users, {}, "Access denied. Pentester role required.")
            ELSE IF ~q.req.file THEN Answer(400, users, {}, "No file uploaded")
            ELSE IF q.req.projectId = "" THEN Answer(400, users, {}, "Project ID is required")
            ELSE Answer(0, users, {}, "")
    IN  /\ q.pc = "check"
        /\ q.op = "upload"
        /\ IF refused.status # 0
           THEN /\ last' = Finished(q, refused)
                /\ inflight' = [inflight EXCEPT ![r] = Idle]
           ELSE /\ last' = last
                /\ inflight' = [inflight EXCEPT ![r] = [q EXCEPT !.pc = "mark"]]
        /\ UNCHANGED <<users, sessions, now, nodeEnv, reports>>

\* `await storage.markOldReportsAsNotLatest(projectId)` settles
UploadMark(r) ==
    LET q == inflight[r]
    IN  /\ q.pc = "mark"
        /\ reports' = markOldReportsAsNotLatest(reports, q.req.projectId)
        /\ inflight' = [inflight EXCEPT ![r] = [q EXCEPT !.pc = "create"]]
        /\ UNCHANGED <<users, sessions, now, nodeEnv, last>>

\* `await storage.createReport(reportData)` settles; the audit log entry,
\* the notification and the answer follow
UploadCreate(r) ==
    LET q == inflight[r]
        reportData == [projectId |-> q.req.projectId, pentesterId |-> getUserId(q.pre),
                       version |-> 1, isLatest |-> TRUE]
    IN  /\ q.pc = "create"
        /\ reports' = createReport(reports, reportData)
        /\ last' = Finished(q, withAuditLog(Answer(201, users, {reportData}, ""),
                                            q.pre, "created", q.req.projectId))
        /\ inflight' = [inflight EXCEPT ![r] = Idle]
        /\ UNCHANGED <<users, sessions, now, nodeEnv>>

----------------------------------------------------------------------------
(* Specifications *)

CoreSids == {"s1"}

\* The gate and the token refresh on one session, with the clock running
Next ==
    \/ Tick
    \/ \E sid \in CoreSids, tokens \in CallbackTokens(now) : Callback(sid, tokens)
    \/ \E sid \in CoreSids : Logout(sid)
    \/ \E sid \in CoreSids : GetDashboardStats(sid)

Spec == Init /\ [][Next]_vars

\* Request bodies of POST /api/admin/create-user: valid ones, one asking
\* for an admin, one without a username
CreateBodies ==
    {[username |-> "alice", password |-> 1, role |-> r] : r \in {"pentester", "client"}}
    \cup {[username |-> "alice", password |-> 1, role |-> "admin"],
          [username |-> "", password |-> 1, role |-> "client"],
          [username |-> "alice", password |-> 0, role |-> "client"]}

\* Request bodies of PUT /api/users/:id: a role change
PutBodies == {[role |-> r] : r \in Roles}

\* The first federated user, with tokens that outlive the clock of the model
LongLivedTokens ==
    {[claims |-> [sub |-> "a", exp |-> MaxTime], access_token |-> 1, refresh_token |-> 0]}

\* The ids the user-management requests name
ManagedIds == {"a"} \cup LocalIds

\* Logins of both kinds, the user-management routes and their role checks,
\* on two sessions at one instant of the clock
NextUsers ==
    \/ \E sid \in Sids, tokens \in LongLivedTokens : Callback(sid, tokens)
    \/ \E sid \in Sids, p \in Passwords : LocalLogin(sid, "alice", p)
    \/ \E sid \in Sids : Logout(sid)
    \/ \E sid \in Sids : GetDashboardStats(sid)
    \/ \E sid \in Sids : GetAuthUser(sid)
    \/ \E sid \in Sids, r \in {"admin", NoRole} : GetUsers(sid, r)
    \/ \E sid \in Sids, body \in CreateBodies : AdminCreateUser(sid, body)
    \/ \E sid \in Sids, i \in ManagedIds, body \in PutBodies : PutUser(sid, i, body)
    \/ \E sid \in Sids, i \in ManagedIds : DeleteUser(sid, i)

InitUsers == Init /\ nodeEnv = "production"

SpecUsers == InitUsers /\ [][NextUsers]_vars

\* The users tables of the credential validator: the first admin and up to
\* two local accounts, each with any username, with or without a password
\* hash, active or disabled
LocalRows(id, role) ==
    {NoRow} \cup
    {[id |-> id, email |-> NoEmail, username |-> u, password |-> h, role |-> role,
      isActive |-> b] :
        u \in Usernames, h \in {NoPassword} \cup {bcryptHash(p) : p \in Passwords},
        b \in BOOLEAN}

LoginTables ==
    {[i \in UserIds |->
        IF i = "a" THEN [id |-> "a", email |-> NoEmail, username |-> NoUsername,
                         password |-> NoPassword, role |-> "admin", isActive |-> TRUE]
        ELSE IF i = "u1" THEN r1
        ELSE IF i = "u2" THEN r2
        ELSE NoRow] : r1 \in LocalRows("u1", "pentester"), r2 \in LocalRows("u2", "client")}

InitLogin ==
    /\ users \in LoginTables
    /\ sessions = [s \in Sids |-> NoSession]
    /\ now = 1
    /\ nodeEnv = "production"
    /\ last = Obs("init", "", 0, FALSE, {}, NoUser, NoUser, NoRecord, NoOutcome, {}, "")
    /\ inflight = [r \in Rids |-> Idle]
    /\ reports = <<>>

\* Local logins, logouts and requests of one browser against a given table
NextLogin ==
    \/ \E sid \in CoreSids, u \in Usernames, p \in Passwords : LocalLogin(sid, u, p)
    \/ \E sid \in CoreSids : Logout(sid)
    \/ \E sid \in CoreSids : GetAuthUser(sid)

SpecLogin == InitLogin /\ [][NextLogin]_vars

\* Users tables of the session codec: the first admin and at most one local
\* account
CodecTables ==
    {t \in LoginTables : t["u2"] = NoRow /\ (Present(t["u1"]) => t["u1"].username = "alice")}

\* Principals handed to req.login: the ones the federated callback builds,
\* the rows of the users table, and objects of neither or of both shapes
FederatedPrincipals ==
    {createOIDCUser(tokens) : tokens \in {t \in CallbackTokens(1) : t.claims.sub = "a"}}

RowPrincipals(tbl) == {tbl[i] : i \in {j \in DOMAIN tbl : Present(tbl[j])}}

OddPrincipals ==
    {[email |-> "x@dev.local"],
     [id |-> "", username |-> "alice"],
     [claims |-> [sub |-> "a", exp |-> 1], access_token |-> 0, refresh_token |-> 1,
      expires_at |-> 1],
     [claims |-> [sub |-> "a", exp |-> 1], access_token |-> 0, refresh_token |-> 1,
      expires_at |-> 1, id |-> "u1"],
     [claims |-> [sub |-> "a", exp |-> 1], access_token |-> 1, refresh_token |-> 0,
      expires_at |-> 1, id |-> "u1"]}

CodecPrincipals(tbl) == FederatedPrincipals \cup RowPrincipals(tbl) \cup OddPrincipals

InitCodec ==
    /\ users \in CodecTables
    /\ sessions = [s \in Sids |-> NoSession]
    /\ now = 1
    /\ nodeEnv = "production"
    /\ last = Obs("init", "", 0, FALSE, {}, NoUser, NoUser, NoRecord, NoOutcome, {}, "")
    /\ inflight = [r \in Rids |-> Idle]
    /\ reports = <<>>

\* The session codec of one browser: serialize at login, deserialize at
\* the next request
NextCodec ==
    \/ \E sid \in CoreSids, p \in CodecPrincipals(users) : ReqLogin(sid, p)
    \/ \E sid \in CoreSids : GetAuthUser(sid)
    \/ \E sid \in CoreSids : Logout(sid)

SpecCodec == InitCodec /\ [][NextCodec]_vars

\* Token responses of the callback for the role rules: either subject, with
\* one of two email addresses, and tokens that outlive the clock
RoleTokens ==
    {[claims |-> [sub |-> s, exp |-> MaxTime, email |-> e], access_token |-> 1,
      refresh_token |-> 0] : s \in Subs, e \in {"x@idp", "y@idp"}}

RoleHints == Roles \cup {NoRole}

InitRoles ==
    /\ users = [i \in UserIds |-> NoRow]
    /\ sessions = [s \in Sids |-> NoSession]
    /\ now = 1
    /\ nodeEnv \in {"development", "production", "test"}
    /\ last = Obs("init", "", 0, FALSE, {}, NoUser, NoUser, NoRecord, NoOutcome, {}, "")
    /\ inflight = [r \in Rids |-> Idle]
    /\ reports = <<>>

\* Every path that creates a user or changes a role, from one browser, in
\* each deployment mode
NextRoles ==
    \/ \E sid \in CoreSids, r \in RoleHints : Login(sid, r)
    \/ \E sid \in CoreSids, tokens \in RoleTokens : Callback(sid, tokens)
    \/ \E sid \in CoreSids, i \in Subs, r \in RoleHints : DevLogin(sid, i, r)
    \/ \E sid \in CoreSids : Logout(sid)
    \/ \E sid \in CoreSids, i \in Subs, body \in PutBodies : PutUser(sid, i, body)

SpecRoles == InitRoles /\ [][NextRoles]_vars

\* A populated table: a federated admin, a federated client and a local
\* pentester
FrameUsers ==
    [i \in UserIds |->
        IF i = "a" THEN [id |-> "a", email |-> NoEmail, username |-> NoUsername,
                         password |-> NoPassword, role |-> "admin", isActive |-> TRUE]
        ELSE IF i = "b" THEN [id |-> "b", email |-> NoEmail, username |-> NoUsername,
                              password |-> NoPassword, role |-> "client", isActive |-> TRUE]
        ELSE IF i = "u1" THEN [id |-> "u1", email |-> NoEmail, username |-> "alice",
                               password |-> bcryptHash(1), role |-> "pentester",
                               isActive |-> TRUE]
        ELSE NoRow]

\* Token responses that expire at once and can be refreshed
ShortLivedTokens(t) ==
    {[claims |-> [sub |-> s, exp |-> t], access_token |-> 1, refresh_token |-> 1] :
        s \in Subs}

FrameIds == {"a", "b", "u1"}

\* Role changes asked for: a promotion and a demotion
FramePutBodies == {[role |-> "admin"], [role |-> "client"]}

\* The clock starts one tick before its last value: the tokens issued then
\* expire at the tick
InitFrame ==
    /\ users = FrameUsers
    /\ sessions = [s \in Sids |-> NoSession]
    /\ now = MaxTime - 1
    /\ nodeEnv \in {"development", "production"}
    /\ last = Obs("init", "", 0, FALSE, {}, NoUser, NoUser, NoRecord, NoOutcome, {}, "")
    /\ inflight = [r \in Rids |-> Idle]
    /\ reports = <<>>

\* One browser that logs in as each of the users in turn, by every login
\* path, lets its tokens expire and be refreshed, and asks for role changes
NextFrame ==
    \/ Tick
    \/ \E sid \in CoreSids : Login(sid, "admin")
    \/ \E sid \in CoreSids, tokens \in ShortLivedTokens(now) : Callback(sid, tokens)
    \/ \E sid \in CoreSids : LocalLogin(sid, "alice", 1)
    \/ \E sid \in CoreSids : DevLogin(sid, "b", "admin")
    \/ \E sid \in CoreSids : Logout(sid)
    \/ \E sid \in CoreSids : GetDashboardStats(sid)
    \/ \E sid \in CoreSids, i \in FrameIds, body \in FramePutBodies :
          PutUser(sid, i, body)

SpecFrame == InitFrame /\ [][NextFrame]_vars

\* Token sets whose fields name their source: token set k has access token
\* k, refresh token k and the claim jti = k
SourcedTokens(k, exp) ==
    [claims |-> [sub |-> "a", exp |-> exp, jti |-> k], access_token |-> k,
     refresh_token |-> k]

RaceOutcomes ==
    {[kind |-> "grant_error", tokens |-> NoTokens]}
    \cup {[kind |-> "ok", tokens |-> SourcedTokens(k, MaxTime)] : k \in Tokens}

\* Two requests of one browser (two tabs) whose token has expired
NextRace ==
    \/ Tick
    \/ \E sid \in CoreSids, k \in Tokens : Callback(sid, SourcedTokens(k, now))
    \/ \E r \in Rids, sid \in CoreSids : RefreshBegin(r, sid)
    \/ \E r \in Rids, ok \in BOOLEAN : RefreshDiscovery(r, ok)
    \/ \E r \in Rids, outcome \in RaceOutcomes : RefreshGrant(r, outcome)
    \/ \E r \in Rids : RefreshRespond(r)

SpecRace == InitUsers /\ [][NextRace]_vars

\* One browser whose federated tokens expire, on a route behind each gate
NextGates ==
    \/ Tick
    \/ \E sid \in CoreSids, tokens \in CallbackTokens(now) : Callback(sid, tokens)
    \/ \E sid \in CoreSids : Logout(sid)
    \/ \E sid \in CoreSids : OidcGated(sid)
    \/ \E sid \in CoreSids : GetDashboardStats(sid)

SpecGates == InitUsers /\ [][NextGates]_vars

\* The browser of each federated user
BrowserOf == [s1 |-> "a", s2 |-> "b"]

\* The tokens of subject s, which outlive the clock of the model
TokensOf(s) ==
    [claims |-> [sub |-> s, exp |-> MaxTime], access_token |-> 1, refresh_token |-> 0]

\* The user-management requests of the two browsers
ManageRequests ==
    {[op |-> "putUser", req |-> [userId |-> i, body |-> [role |-> role]]] :
        i \in Subs, role \in {"admin", "client"}}
    \cup {[op |-> "deleteUser", req |-> [userId |-> i]] : i \in Subs}

\* Two federated users, each in a browser of their own, whose PUT and DELETE
\* requests interleave at the storage calls
NextAdmins ==
    \/ \E sid \in Sids : Callback(sid, TokensOf(BrowserOf[sid]))
    \/ \E r \in Rids, sid \in Sids, m \in ManageRequests : ManageBegin(r, sid, m.op, m.req)
    \/ \E r \in Rids : ManageCheck(r)
    \/ \E r \in Rids : ManageLookup(r)
    \/ \E r \in Rids : ManageWrite(r)

SpecAdmins == InitUsers /\ [][NextAdmins]_vars

\* Two federated users whose logins interleave at the storage calls of
\* upsertUser
NextFirst ==
    \/ \E r \in Rids, sid \in Sids : CallbackBegin(r, sid, TokensOf(BrowserOf[sid]))
    \/ \E r \in Rids : UpsertExisting(r)
    \/ \E r \in Rids : UpsertAdmins(r)
    \/ \E r \in Rids : UpsertWrite(r)
    \/ \E sid \in Sids : Logout(sid)

SpecFirst == InitUsers /\ [][NextFirst]_vars

\* PUT bodies that switch a user off and on again
ActiveBodies == {[isActive |-> b] : b \in BOOLEAN}

InitActive ==
    /\ users = FrameUsers
    /\ sessions = [s \in Sids |-> NoSession]
    /\ now = 1
    /\ nodeEnv = "production"
    /\ last = Obs("init", "", 0, FALSE, {}, NoUser, NoUser, NoRecord, NoOutcome, {}, "")
    /\ inflight = [r \in Rids |-> Idle]
    /\ reports = <<>>

\* An admin and a local user, each in a browser of their own; the admin
\* switches the local user's account off and on
NextActive ==
    \/ \E sid \in Sids, tokens \in LongLivedTokens : Callback(sid, tokens)
    \/ \E sid \in Sids : LocalLogin(sid, "alice", 1)
    \/ \E sid \in Sids : Logout(sid)
    \/ \E sid \in Sids : GetDashboardStats(sid)
    \/ \E sid \in Sids : GetAuthUser(sid)
    \/ \E sid \in Sids, body \in ActiveBodies : PutUser(sid, "u1", body)

SpecActive == InitActive /\ [][NextActive]_vars

\* The uploads asked for: two projects, a missing file, a missing project id
UploadRequests ==
    {[projectId |-> p, file |-> TRUE] : p \in Projects \cup {""}}
    \cup {[projectId |-> "p1", file |-> FALSE]}

\* The pentester alice and the admin a, each in a browser of their own;
\* uploads for the same or for different projects interleave at the storage
\* calls
NextReports ==
    \/ LocalLogin("s1", "alice", 1)
    \/ Callback("s2", TokensOf("a"))
    \/ \E r \in Rids, sid \in Sids, u \in UploadRequests :
          UploadBegin(r, sid, u.projectId, u.file)
    \/ \E r \in Rids : UploadCheck(r)
    \/ \E r \in Rids : UploadMark(r)
    \/ \E r \in Rids : UploadCreate(r)

SpecReports == InitActive /\ [][NextReports]_vars

\* Role changes an admin asks for on the client b
ReloginPutBodies == {[role |-> "pentester"], [role |-> "client"]}

\* The known users a (admin) and b log in again, one storage call of
\* upsertUser at a time, while the admin changes the role of b
NextRelogin ==
    \/ \E r \in Rids, sid \in Sids : CallbackBegin(r, sid, TokensOf(BrowserOf[sid]))
    \/ \E r \in Rids : UpsertExisting(r)
    \/ \E r \in Rids : UpsertWrite(r)
    \/ \E sid \in Sids, body \in ReloginPutBodies : PutUser(sid, "b", body)

SpecRelogin == InitActive /\ [][NextRelogin]_vars

\* Request bodies that name a username: of POST /api/admin/create-user, of
\* POST /api/users and of PUT /api/users/:id
NamedCreateBodies ==
    {[username |-> u, password |-> 1, role |-> "client"] : u \in Usernames}

NamedPostBodies ==
    {[username |-> u, role |-> r] : u \in Usernames, r \in {"client", "admin"}}

NamedPutBodies == {[username |-> u] : u \in Usernames}

\* The first admin and the three requests that write usernames
NextNames ==
    \/ \E sid \in CoreSids, tokens \in LongLivedTokens : Callback(sid, tokens)
    \/ \E sid \in CoreSids : Logout(sid)
    \/ \E sid \in CoreSids, body \in NamedCreateBodies : AdminCreateUser(sid, body)
    \/ \E sid \in CoreSids, body \in NamedPostBodies : PostUser(sid, body)
    \/ \E sid \in CoreSids, i \in LocalIds, body \in NamedPutBodies :
          PutUser(sid, i, body)

SpecNames == InitUsers /\ [][NextNames]_vars

----------------------------------------------------------------------------
(* Claims about the gate and token refresh *)

\* The last request went through the gate of a protected route
GateRan == last.op \in {"stats", "authUser", "getUsers", "createUser", "postUser", "putUser",
                  "deleteUser"}

\* The last request carried a federated principal into the gate
FederatedRequest == GateRan /\ last.pre # NoUser /\ isOIDCShape(last.pre)

\* C1: after a request whose gate refreshed an expired federated token, the
\* stored session record of that session holds the new access_token and
\* expires_at (and the new refresh_token if one was issued), so the next
\* request deserializes the refreshed principal.
C1_RefreshPersisted ==
    (FederatedRequest /\ last.refresh = "ok") =>
        /\ sessions[last.sid].passport.access_token = last.tokens.access_token
        /\ sessions[last.sid].passport.expires_at = last.tokens.claims.exp
        /\ (last.tokens.refresh_token # 0 =>
              sessions[last.sid].passport.refresh_token = last.tokens.refresh_token)
        /\ deserializeUser(sessions[last.sid].passport, users).user = last.post

\* C2: for a federated principal with now <= expires_at the gate calls next,
\* makes no provider call and leaves the principal unchanged; the session
\* record is unchanged too, so applying the gate again (any number of times)
\* starts from the same principal and yields the same principal.
C2_FreshIsNoop ==
    (FederatedRequest /\ now <= last.pre.expires_at) =>
        /\ last.next
        /\ last.status = 200
        /\ last.calls = {}
        /\ last.post = last.pre
        /\ sessions[last.sid].passport = last.rec
        /\ deserializeUser(sessions[last.sid].passport, users).user = last.pre
        /\ \A o \in OutcomesFor(last.post, now) :
              unifiedIsAuthenticated(last.post, now, o) = callNext(last.pre, {})

C2_Witness ==
    /\ FederatedRequest
    /\ now = last.pre.expires_at
    /\ last.pre.refresh_token # 0
    /\ last.next

\* C3: for a federated principal with now > expires_at and no refresh_token
\* the gate answers 401, never calls next, makes no provider call and leaves
\* the principal unchanged.
C3_ExpiredNoRefreshToken ==
    (FederatedRequest /\ now > last.pre.expires_at /\ last.pre.refresh_token = 0) =>
        /\ last.status = 401
        /\ ~last.next
        /\ last.calls = {}
        /\ last.post = last.pre

C3_Witness ==
    /\ FederatedRequest
    /\ now > last.pre.expires_at
    /\ last.pre.refresh_token = 0
    /\ last.status = 401

\* C4: when the refresh exchange of an expired federated principal fails
\* (discovery error or provider error), the gate answers 401, never calls
\* next, and claims, access_token, refresh_token and expires_at of the
\* principal and of the stored session keep their values.
C4_RefreshFailureIsAtomic ==
    (FederatedRequest /\ last.refresh \in {"discovery_error", "grant_error"}) =>
        /\ last.status = 401
        /\ ~last.next
        /\ last.post = last.pre
        /\ sessions[last.sid].passport = last.rec
        /\ serializeUser(last.post).data = last.rec

C4_Witness ==
    /\ FederatedRequest
    /\ last.refresh = "grant_error"
    /\ now > last.pre.expires_at
    /\ last.calls = {"discovery", "token"}
    /\ last.status = 401

\* C5: when the refresh exchange succeeds, claims, access_token and
\* expires_at of the principal are those of the token response
\* (expires_at = claims.exp), refresh_token is replaced exactly when the
\* response carries one, and the request is authorized.
C5_RefreshSuccessOverwrites ==
    (FederatedRequest /\ last.refresh = "ok") =>
        /\ last.next
        /\ last.status = 200
        /\ last.post.claims = last.tokens.claims
        /\ last.post.access_token = last.tokens.access_token
        /\ last.post.expires_at = last.tokens.claims.exp
        /\ last.post.refresh_token =
              (IF last.tokens.refresh_token # 0 THEN last.tokens.refresh_token
               ELSE last.pre.refresh_token)

\* a refresh without rotation: the old refresh_token is kept, the rest changes
C5_Witness ==
    /\ FederatedRequest
    /\ last.refresh = "ok"
    /\ last.tokens.refresh_token = 0
    /\ last.post.refresh_token = last.pre.refresh_token
    /\ last.post.access_token # last.pre.access_token
    /\ last.post.expires_at # last.pre.expires_at

----------------------------------------------------------------------------
(* Claims about sessions, roles and responses *)

AdminOnlyOps == {"getUsers", "createUser", "postUser", "putUser", "deleteUser"}

\* C6: a request that carries no authenticated session/principal is answered
\* 401 by the gate and never reaches the handler of a protected route.
C6_NoSessionRejected ==
    /\ (GateRan /\ last.rec = NoRecord) =>
          /\ last.status = 401
          /\ ~last.next
          /\ last.body = {}
    /\ requireAuth(NoUser).status = 401
    /\ ~requireAuth(NoUser).next

C6_Witness ==
    /\ last.op = "putUser"
    /\ last.rec = NoRecord
    /\ last.status = 401
    /\ \E i \in UserIds : Present(users[i])

\* C7: the role check of an admin-only route uses the role the users table
\* holds at the request: a request that passed the gate is answered 403
\* exactly when the stored role of its principal is not admin, whatever the
\* role was when the session logged in.
C7_RoleCheckUsesStoredRole ==
    (last.op \in AdminOnlyOps /\ last.next) =>
        ((last.status = 403) <=> (storedRole(users, last.post) # "admin"))

\* a federated admin demoted after login is refused on the same session
C7_Witness ==
    /\ last.op = "getUsers"
    /\ last.next
    /\ isOIDCShape(last.pre)
    /\ sessions[last.sid].loginRole = "admin"
    /\ storedRole(users, last.post) = "client"
    /\ last.status = 403

\* C8: every identity or session failure (no session, expired token without
\* refresh token, failed refresh, invalid credentials, disabled account, a
\* local session whose user no longer resolves) ends the request with 401,
\* and every role mismatch of an authenticated request ends it with 403.
C8_FailureStatuses ==
    /\ (GateRan /\ last.rec = NoRecord) => last.status = 401
    /\ (FederatedRequest /\ ~isFresh(last.pre, now) /\ ~hasRefreshToken(last.pre)) =>
          last.status = 401
    /\ (FederatedRequest /\ last.refresh \in {"discovery_error", "grant_error"}) =>
          last.status = 401
    /\ (last.op = "localLogin"
          /\ last.message \in {"Invalid username or password", "Account is disabled"}) =>
          last.status = 401
    /\ (GateRan /\ last.rec.type = "local" /\ getUser(users, last.rec.userId) = NoRow) =>
          last.status = 401
    /\ (last.op \in AdminOnlyOps /\ last.next /\ storedRole(users, last.post) # "admin") =>
          last.status = 403

\* C9: no response contains the password hash of a user record.
C9_NoPasswordHashInResponse ==
    \A u \in last.body : "password" \in DOMAIN u => u.password = NoPassword

----------------------------------------------------------------------------
(* Claims about the local credential validator *)

\* The last request was a local login with a username no row has
UnknownUsernameLogin ==
    /\ last.op = "localLogin"
    /\ getUserByUsername(users, last.input.username) = NoRow

\* The last request was a local login with the username of a row and a
\* password that does not match it
WrongPasswordLogin ==
    /\ last.op = "localLogin"
    /\ getUserByUsername(users, last.input.username) # NoRow
    /\ ~validatePassword(getUserByUsername(users, last.input.username),
                         last.input.password)

\* C10: an unknown username and a known username with a wrong password get
\* the same failure (401, 'Invalid username or password'), for every user
\* record, inactive ones included.
C10_SameFailureReason ==
    /\ \A u1 \in Usernames, u2 \in Usernames, p \in Passwords :
          (/\ getUserByUsername(users, u1) = NoRow
           /\ getUserByUsername(users, u2) # NoRow
           /\ ~validatePassword(getUserByUsername(users, u2), p)) =>
              /\ localVerify(users, u1, p) = localVerify(users, u2, p)
              /\ localVerify(users, u2, p).user = NoUser
    /\ ((UnknownUsernameLogin \/ WrongPasswordLogin) /\ last.message # "User not found") =>
          /\ last.status = 401
          /\ last.message = "Invalid username or password"
          /\ last.body = {}
          /\ sessions[last.sid].passport = last.rec

\* a wrong password for a disabled account, while some username is unknown
C10_Witness ==
    /\ WrongPasswordLogin
    /\ ~getUserByUsername(users, last.input.username).isActive
    /\ getUserByUsername(users, last.input.username).password # NoPassword
    /\ \E u \in Usernames : getUserByUsername(users, u) = NoRow
    /\ last.status = 401

\* The row the validator looks at for the credentials of the last local login
LoginRow == getUserByUsername(users, last.input.username)

\* The last request was a local login that got as far as the validator
ValidatorRan == last.op = "localLogin" /\ last.message # "User not found"

\* C11: the validator returns the user exactly when the username has a row,
\* the password matches the stored hash and the row is active, and then the
\* session holds that user; with a matching password and an inactive row it
\* fails with 'Account is disabled' (401) and the session is left as it was.
C11_ValidatorContract ==
    /\ \A u \in Usernames, p \in Passwords :
          LET row == getUserByUsername(users, u)
              ok == row # NoRow /\ validatePassword(row, p) /\ row.isActive
          IN  /\ (localVerify(users, u, p).user # NoUser) <=> ok
              /\ ok => localVerify(users, u, p).user = row
              /\ (row # NoRow /\ validatePassword(row, p) /\ ~row.isActive) =>
                    localVerify(users, u, p) =
                        [user |-> NoUser, message |-> "Account is disabled"]
    /\ ValidatorRan =>
          LET matches == LoginRow # NoRow /\ validatePassword(LoginRow, last.input.password)
          IN  /\ (matches /\ LoginRow.isActive) =>
                    /\ last.status = 200
                    /\ last.post = LoginRow
                    /\ sessions[last.sid].passport = [type |-> "local", userId |-> LoginRow.id]
              /\ (matches /\ ~LoginRow.isActive) =>
                    /\ last.status = 401
                    /\ last.message = "Account is disabled"
                    /\ last.body = {}
                    /\ sessions[last.sid].passport = last.rec
              /\ ~matches => last.status = 401 /\ sessions[last.sid].passport = last.rec

\* the right password for a disabled account, from a browser with no session
C11_Witness ==
    /\ ValidatorRan
    /\ LoginRow # NoRow
    /\ validatePassword(LoginRow, last.input.password)
    /\ ~LoginRow.isActive
    /\ last.message = "Account is disabled"
    /\ sessions[last.sid].passport = NoRecord

----------------------------------------------------------------------------
(* Claims about the session codec *)

\* user.claims && user.access_token, read off the principal
HasClaimsAndToken(p) ==
    "claims" \in DOMAIN p /\ "access_token" \in DOMAIN p /\ p.access_token # 0

\* user.id, read off the principal
HasUserId(p) == "id" \in DOMAIN p /\ p.id # ""

\* C12: serialize maps a principal with claims and access_token to the record
\* {type:'oidc', claims, access_token, refresh_token, expires_at}, any other
\* principal with an id to a record of exactly {type:'local', userId}, and
\* fails with an error and no record when neither shape matches.
C12_SerializeContract ==
    /\ \A p \in CodecPrincipals(users) :
          LET s == serializeUser(p)
          IN  /\ HasClaimsAndToken(p) =>
                    /\ s.err = ""
                    /\ s.data = [type |-> "oidc", claims |-> p.claims,
                                 access_token |-> p.access_token,
                                 refresh_token |-> p.refresh_token,
                                 expires_at |-> p.expires_at]
              /\ (~HasClaimsAndToken(p) /\ HasUserId(p)) =>
                    /\ s.err = ""
                    /\ s.data = [type |-> "local", userId |-> p.id]
                    /\ DOMAIN s.data = {"type", "userId"}
              /\ (~HasClaimsAndToken(p) /\ ~HasUserId(p)) =>
                    /\ s.err # ""
                    /\ s.data = NoRecord
    /\ last.op = "reqLogin" =>
          /\ (last.status = 200) <=> (HasClaimsAndToken(last.pre) \/ HasUserId(last.pre))
          /\ last.status = 200 => sessions[last.sid].passport = serializeUser(last.pre).data
          /\ last.status # 200 => sessions[last.sid].passport \in {last.rec, NoRecord}
          /\ sessions[last.sid].passport.type = "local" =>
                DOMAIN sessions[last.sid].passport = {"type", "userId"}

\* a row with a password hash was serialized into a session
C12_Witness ==
    /\ last.op = "reqLogin"
    /\ "password" \in DOMAIN last.pre
    /\ last.pre.password # NoPassword
    /\ sessions[last.sid].passport = [type |-> "local", userId |-> last.pre.id]

\* The last request logged a principal in: the federated callback or a
\* successful local login
LoggedIn ==
    \/ last.op = "callback" /\ last.status = 302
    \/ last.op = "localLogin" /\ last.status = 200

\* C13: for the principal p of a local login or of the federated callback,
\* deserialize(serialize(p)) succeeds and has the identity of p (user id for
\* local, claims.sub for federated), so getUserId is the same before and
\* after; a stored record keeps resolving to that identity while a local
\* user's row exists.
C13_RoundTripIdentity ==
    /\ LoggedIn =>
          LET rt == deserializeUser(serializeUser(last.post).data, users)
          IN  /\ serializeUser(last.post).err = ""
              /\ sessions[last.sid].passport = serializeUser(last.post).data
              /\ rt.err = ""
              /\ getUserId(rt.user) = getUserId(last.post)
              /\ getUserId(last.post) # ""
              /\ isOIDCShape(last.post) => rt.user.claims.sub = last.post.claims.sub
              /\ ~isOIDCShape(last.post) => rt.user.id = last.post.id
    /\ \A sid \in Sids :
          LET rec == sessions[sid].passport
          IN  /\ rec.type = "oidc" =>
                    getUserId(deserializeUser(rec, users).user) = rec.claims.sub
              /\ (rec.type = "local" /\ getUser(users, rec.userId) # NoRow) =>
                    getUserId(deserializeUser(rec, users).user) = rec.userId

\* a federated and a local session side by side, the local one just logged in
C13_Witness ==
    /\ last.op = "localLogin"
    /\ last.status = 200
    /\ getUserId(deserializeUser(sessions[last.sid].passport, users).user) = last.post.id
    /\ \E sid \in Sids :
          /\ sessions[sid].passport.type = "oidc"
          /\ getUserId(deserializeUser(sessions[sid].passport, users).user) = "a"

\* The session holds a local record whose user id has no row any more
StaleLocalSession(sid) ==
    /\ sessions[sid].passport.type = "local"
    /\ getUser(users, sessions[sid].passport.userId) = NoRow

\* C14: a request on a local session whose stored userId no longer resolves
\* fails in deserialization with 'User not found' and ends there: no handler
\* runs, no principal (authenticated or anonymous) is served, nothing is
\* answered from the users table and neither the table nor the session
\* store changes.
C14_StaleSessionInvalidated ==
    [][\A sid \in Sids :
          (StaleLocalSession(sid) /\ last'.sid = sid) =>
              /\ last'.message = "User not found"
              /\ ~last'.next
              /\ last'.status >= 400
              /\ last'.body = {}
              /\ last'.pre = NoUser
              /\ last'.post = NoUser
              /\ users' = users
              /\ sessions' = sessions]_vars

\* the deleted user's session asks for an admin operation
C14_Witness ==
    /\ last.op = "deleteUser"
    /\ last.message = "User not found"
    /\ StaleLocalSession(last.sid)
    /\ \E i \in LocalIds : users[i] = Gone

----------------------------------------------------------------------------
(* Claims about role assignment *)

\* The step creates the row of user id i
Creates(i) == users[i] = NoRow /\ Present(users'[i])

NoAdmin(tbl) == getUsersByRole(tbl, "admin") = {}

\* C15: while no admin exists, a user created by any path (federated
\* callback, dev-login), with any requested or hinted role, is stored as
\* admin; a user created while an admin exists, with no hint, is stored as
\* client.
C15_FirstUserIsAdmin ==
    [][\A i \in UserIds :
          Creates(i) =>
              /\ NoAdmin(users) => users'[i].role = "admin"
              /\ (~NoAdmin(users) /\ last'.hint = NoRole) => users'[i].role = "client"]_vars

\* The step is a completed federated callback for subject id i
CallbackFor(i) ==
    /\ last'.op = "callback"
    /\ last'.status = 302
    /\ last'.post.claims.sub = i

\* C16: a federated re-login of a known subject id leaves that user's stored
\* role as it was, for every hint in the session and every deployment mode;
\* the email becomes the one of the new claims, the other columns and the
\* other rows keep their values.
C16_ReloginKeepsRole ==
    [][\A i \in Subs :
          (Present(users[i]) /\ CallbackFor(i)) =>
              /\ users'[i].role = users[i].role
              /\ users'[i].email = claimsEmail(last'.post.claims)
              /\ users' = [users EXCEPT ![i].email = claimsEmail(last'.post.claims)]]_vars

\* In development a new user with the hint admin would be an admin, so the
\* client of this callback was known before it: the hint was not applied,
\* and the email is the one of the claims.
C16_Witness ==
    /\ last.op = "callback"
    /\ last.status = 302
    /\ last.hint = "admin"
    /\ nodeEnv = "development"
    /\ users[last.post.claims.sub].role = "client"
    /\ users[last.post.claims.sub].email = "y@idp"

\* C17: a federated user created while an admin exists is stored as client,
\* unless the session holds a hint and the deployment mode honours it; no
\* hint is honoured in production (the code honours it in development only).
C17_NewUserRoleByHint ==
    [][\A i \in Subs :
          (Creates(i) /\ CallbackFor(i) /\ ~NoAdmin(users)) =>
              /\ users'[i].role \in {"client", last'.hint}
              /\ last'.hint = NoRole => users'[i].role = "client"
              /\ nodeEnv = "production" => users'[i].role = "client"
              /\ nodeEnv = "test" => users'[i].role = "client"
              /\ (nodeEnv = "development" /\ last'.hint \in Roles) =>
                    users'[i].role = last'.hint]_vars

\* a second federated user arrives in production with the hint admin and
\* is stored as client
C17_Witness ==
    /\ last.op = "callback"
    /\ last.status = 302
    /\ last.hint = "admin"
    /\ nodeEnv = "production"
    /\ last.post.claims.sub = "b"
    /\ users["b"].role = "client"
    /\ users["a"].role = "admin"

----------------------------------------------------------------------------
(* Claims about user management *)

\* The step is a request of an admin, past the gate, that names the admin's
\* own user id
OwnIdRequest(op) ==
    /\ last'.op = op
    /\ last'.next
    /\ storedRole(users, last'.post) = "admin"
    /\ last'.req.userId = getUserId(last'.post)

\* C18: a PUT /api/users/:id of an admin on their own id with a role other
\* than admin, and a DELETE /api/users/:id of an admin on their own id, are
\* answered 400 and change nothing: the users table is as before and no
\* audit log entry is written.
C18_SelfLockoutRejected ==
    [][/\ (OwnIdRequest("putUser") /\ last'.req.body.role # "admin") =>
              /\ last'.status = 400
              /\ last'.message = "Cannot change your own admin role"
              /\ users' = users
              /\ last'.audit = NoAudit
       /\ OwnIdRequest("deleteUser") =>
              /\ last'.status = 400
              /\ last'.message = "Cannot delete your own account"
              /\ users' = users
              /\ last'.audit = NoAudit]_vars

\* a local admin, promoted by the first admin, tries to demote themselves
C18_Witness ==
    /\ last.op = "putUser"
    /\ last.status = 400
    /\ last.req.body.role = "client"
    /\ last.req.userId = "u1"
    /\ users["u1"].role = "admin"
    /\ users["a"].role = "admin"

\* The step changes the role of the existing row of user id i
RoleChanges(i) ==
    /\ Present(users[i])
    /\ Present(users'[i])
    /\ users'[i].role # users[i].role

\* The step is a PUT /api/users/:id of a stored admin that was answered 200
AdminUpdate(i) ==
    /\ last'.op = "putUser"
    /\ last'.next
    /\ last'.status = 200
    /\ storedRole(users, last'.post) = "admin"
    /\ last'.req.userId = i
    /\ last'.req.body.role = users'[i].role

\* C19: the role of an existing row changes only by a PUT /api/users/:id of
\* an admin: logins and re-logins of either kind, token refresh, session
\* deserialization, logout and every request of a non-admin leave the role
\* of every existing row as it was.
C19_RoleChangesOnlyByAdmin ==
    [][\A i \in UserIds : RoleChanges(i) => AdminUpdate(i)]_vars

\* a client whose token was just refreshed asks to become admin and is
\* refused
C19_Witness ==
    /\ last.op = "putUser"
    /\ last.refresh = "ok"
    /\ last.status = 403
    /\ last.req.userId = getUserId(last.post)
    /\ last.req.body.role = "admin"
    /\ users[last.req.userId].role = "client"

----------------------------------------------------------------------------
(* Claims about local sessions *)

\* The last request went into the gate on a local session whose user id
\* has a row
LocalRequest ==
    /\ GateRan
    /\ last.rec.type = "local"
    /\ getUser(users, last.rec.userId) # NoRow

\* C20: a local principal whose userId resolves is authorized by the gate at
\* every value of the clock: no expiry is read and no provider is called;
\* the verdict is the same for every time, and the principal and the stored
\* session are left as they were.
C20_LocalGateIgnoresClock ==
    /\ \A t \in Times, row \in RowPrincipals(users) :
          unifiedIsAuthenticated(row, t, NoOutcome) = callNext(row, {})
    /\ \A t \in Times, row \in RowPrincipals(users) : OutcomesFor(row, t) = {NoOutcome}
    /\ LocalRequest =>
          /\ last.next
          /\ last.status # 401
          /\ last.calls = {}
          /\ last.refresh = "none"
          /\ last.pre.id = last.rec.userId
          /\ last.post = last.pre
          /\ sessions[last.sid].passport = last.rec

\* a local session is let through at the last value of the clock
C20_Witness ==
    /\ LocalRequest
    /\ last.op = "stats"
    /\ now = MaxTime
    /\ last.status = 200
    /\ last.pre.password # NoPassword

\* The step is a request through the gate of a protected route on session sid
GatedStep(sid) ==
    /\ last'.sid = sid
    /\ last'.op \in {"stats", "authUser", "getUsers", "createUser", "postUser", "putUser",
                  "deleteUser"}

\* The step is a login on session sid that succeeded
LoginStep(sid) ==
    /\ last'.sid = sid
    /\ \/ last'.op = "callback" /\ last'.status = 302
       \/ last'.op \in {"localLogin", "devLogin"} /\ last'.status = 200

\* C21: a completed GET /api/logout leaves the session without a principal;
\* a session without a principal is answered 401 on every protected route
\* and gets a principal only by a successful login; and only a logout takes
\* the principal of a session away.
C21_LogoutEndsSession ==
    [][\A sid \in Sids :
          /\ (last'.op = "logout" /\ last'.sid = sid /\ last'.status = 302) =>
                sessions'[sid].passport = NoRecord
          /\ (sessions[sid].passport = NoRecord /\ GatedStep(sid)) =>
                /\ last'.status = 401
                /\ ~last'.next
                /\ sessions'[sid].passport = NoRecord
          /\ (sessions[sid].passport = NoRecord /\ sessions'[sid].passport # NoRecord) =>
                LoginStep(sid)
          /\ (sessions[sid].passport # NoRecord /\ sessions'[sid].passport = NoRecord) =>
                (last'.op = "logout" /\ last'.sid = sid)]_vars

\* a logged-in local user has just logged out
C21_Witness ==
    /\ last.op = "logout"
    /\ last.status = 302
    /\ hasId(last.pre)
    /\ last.rec.type = "local"
    /\ sessions[last.sid].passport = NoRecord

----------------------------------------------------------------------------
(* Claims about concurrent requests *)

\* A token set (principal or stored record) whose fields all come from the
\* same source
Whole(t) ==
    /\ t.access_token = t.claims.jti
    /\ t.refresh_token = t.claims.jti
    /\ t.expires_at = t.claims.exp

\* Both requests have refreshed the same expired session
BothRefreshed ==
    \A r \in Rids : inflight[r].pc = "respond" /\ inflight[r].outcome.kind = "ok"

\* C22: while two requests of one expired federated session refresh
\* concurrently, the stored record is at every state a token set of a single
\* source (the login or one token response), and the principal of each
\* request is at every state either the one it loaded or the one of its own
\* token response, never a mixture.
C22_RaceKeepsRecordWhole ==
    /\ \A sid \in Sids :
          sessions[sid].passport.type = "oidc" => Whole(sessions[sid].passport)
    /\ \A r \in Rids :
          inflight[r] # Idle =>
              /\ Whole(inflight[r].pre)
              /\ Whole(inflight[r].gate.user)
              /\ inflight[r].gate.user =
                    (IF inflight[r].outcome.kind = "ok"
                     THEN createOIDCUser(inflight[r].outcome.tokens)
                     ELSE inflight[r].pre)

\* both requests hold a refreshed principal, from two different responses
C22_Witness ==
    /\ BothRefreshed
    /\ inflight["r1"].gate.user.access_token # inflight["r2"].gate.user.access_token
    /\ inflight["r1"].pre = inflight["r2"].pre

\* C23: no two user records share a non-null username, after any sequence
\* of POST /api/admin/create-user, POST /api/users and PUT /api/users/:id;
\* getUserByUsername then identifies at most one user.
C23_UsernamesUnique ==
    \A i \in UserIds, j \in UserIds :
        (/\ i # j
         /\ Present(users[i])
         /\ Present(users[j])
         /\ users[i].username # NoUsername) => users[i].username # users[j].username

----------------------------------------------------------------------------
(* Claims about POST /api/admin/create-user *)

\* The step is a create-user request that passed the gate
CreateUserStep == last'.op = "createUser" /\ last'.next

\* The step adds exactly the row the body asks for
CreatesFromBody(body) ==
    \E i \in LocalIds :
        /\ users[i] = NoRow
        /\ users' = [users EXCEPT ![i] = users'[i]]
        /\ users'[i].username = body.username
        /\ users'[i].role = body.role
        /\ users'[i].password = bcryptHash(body.password)

\* C24: POST /api/admin/create-user answers 403 unless the caller's stored
\* role is admin, 400 unless username, password and role are present and
\* the role is pentester or client, 409 if the username has a row, and
\* creates the user otherwise; it never creates an admin, and every call
\* that was not answered 201 leaves the users table as it was.
C24_CreateUserContract ==
    [][/\ CreateUserStep =>
              LET body == last'.req.body
                  isAdmin == storedRole(users, last'.post) = "admin"
                  present == body.username # "" /\ body.password # 0 /\ body.role # ""
                  allowed == body.role \in {"pentester", "client"}
                  exists == getUserByUsername(users, body.username) # NoRow
              IN  /\ ~isAdmin => last'.status = 403
                  /\ (isAdmin /\ ~(present /\ allowed)) => last'.status = 400
                  /\ (isAdmin /\ present /\ allowed /\ exists) => last'.status = 409
                  /\ (isAdmin /\ present /\ allowed /\ ~exists) =>
                        (last'.status = 201 /\ CreatesFromBody(body))
                  /\ last'.status # 201 => users' = users
       /\ last'.op = "createUser" =>
              /\ ~last'.next => users' = users
              /\ \A i \in UserIds : Creates(i) => users'[i].role # "admin"]_vars

\* an admin asks for a second admin and is refused
C24_Witness ==
    /\ last.op = "createUser"
    /\ last.next
    /\ storedRole(users, last.post) = "admin"
    /\ last.req.body.role = "admin"
    /\ last.req.body.username = "alice"
    /\ last.status = 400
    /\ getUserByUsername(users, "alice") = NoRow

----------------------------------------------------------------------------
(* Claims about the two gates *)

\* C25: for every federated principal, clock value and refresh outcome,
\* isAuthenticated gives the verdict (next or 401) and the resulting
\* principal that unifiedIsAuthenticated gives, an expired token whose
\* refresh exchange succeeds included.
C25_GatesAgree ==
    (last.op = "oidcGate" /\ last.pre # NoUser /\ isOIDCShape(last.pre)) =>
        LET unified == unifiedIsAuthenticated(last.pre, now,
                                              [kind |-> last.refresh, tokens |-> last.tokens])
        IN  /\ unified.next = last.next
            /\ unified.user = last.post

\* C26: a local user whose active flag was set to false after their login
\* is rejected by the gate on every later request of their session, as
\* they are at login.
C26_DeactivatedRejected ==
    (/\ GateRan
     /\ last.rec.type = "local"
     /\ getUser(users, last.rec.userId) # NoRow
     /\ ~getUser(users, last.rec.userId).isActive) =>
        /\ ~last.next
        /\ last.status = 401

----------------------------------------------------------------------------
(* Claims about interleaved requests *)

\* C27: once some user has role admin, every reachable state has a user
\* with role admin, under every sequence and every interleaving, at the
\* storage calls, of PUT /api/users/:id and DELETE /api/users/:id requests
\* of authenticated users.
C27_AdminRemains ==
    [][~NoAdmin(users) => ~NoAdmin(users')]_vars

\* C28: when two unknown subjects complete their first federated login
\* concurrently while no admin exists, under every interleaving of their
\* upsertUser steps exactly one of them is stored as admin and the other
\* gets the role of a subsequent user.
C28_OneFirstAdmin ==
    (Present(users["a"]) /\ Present(users["b"])) =>
        \E i \in Subs :
            /\ users[i].role = "admin"
            /\ \A j \in Subs \ {i} : users[j].role = "client"

\* C29: a federated re-login of user U that interleaves with an admin's
\* role update of U never undoes the update: when the re-login's upsertUser
\* completes, U's stored role is the role that was stored just before its
\* write, for every interleaving of its read of the existing user and its
\* write with PUT /api/users/:id.
C29_ReloginKeepsUpdate ==
    [][\A i \in Subs :
          (Present(users[i]) /\ CallbackFor(i)) => users'[i].role = users[i].role]_vars

\* C30: for every project at most one report has isLatest = true, in every
\* reachable state, also while two uploads for the same project interleave
\* between markOldReportsAsNotLatest and createReport; after an upload
\* completes, the report with isLatest = true is the most recently created
\* one of its project.
C30_OneLatestReport ==
    /\ \A p \in Projects : Cardinality(latestReports(reports, p)) <= 1
    /\ (last.op = "upload" /\ last.status = 201) =>
          \A i \in latestReports(reports, last.req.projectId) :
              \A j \in 1..Len(reports) :
                  reports[j].projectId = last.req.projectId => j <= i

====
